---------------------------- MODULE Spec2Model ----------------------------
(***************************************************************************)
(* Failure clustering engine of copilot-failure-insights                   *)
(* (utils/dataProcessor.ts): processFailureClusters and the helpers it     *)
(* calls.  JavaScript strings are modelled as sequences of one-character   *)
(* strings, so that split, join, toLowerCase and includes are computed     *)
(* character by character as the code computes them.  Timestamps are the   *)
(* integers returned by Date.getTime().  Confidence values are in          *)
(* hundredths (0.85 is 85).                                                *)
(***************************************************************************)
EXTENDS Integers, Sequences, FiniteSets, TLC

(***************************************************************************)
(* String literals of the source, as character sequences.                  *)
(***************************************************************************)
skUserLookup ==
    <<"U","s","e","r","L","o","o","k","u","p">>
skDeviceQuery ==
    <<"D","e","v","i","c","e","Q","u","e","r","y">>
skUser ==
    <<"U","s","e","r">>
skUser_Lookup ==
    <<"U","s","e","r","_","L","o","o","k","u","p">>
exLookupFailed ==
    <<"L","o","o","k","u","p"," ","f","a","i","l","e","d">>
exFailed ==
    <<"f","a","i","l","e","d">>
exApiTimeout30 ==
    <<"A","P","I"," ","t","i","m","e","o","u","t"," ","a","f","t","e","r"," ","3","0"," ","s","e","c","o","n","d","s">>
exApiTimeout60 ==
    <<"A","P","I"," ","t","i","m","e","o","u","t"," ","a","f","t","e","r"," ","6","0"," ","s","e","c","o","n","d","s">>
exSkillConfig ==
    <<"S","k","i","l","l"," ","c","o","n","f","i","g","u","r","a","t","i","o","n"," ","e","r","r","o","r">>
exNoContext ==
    <<"O","p"," ","d","i","d"," ","f","a","i","l",":"," ","n","o"," ","C","o","n","t","e","x","t">>
exTenantGone ==
    <<"O","p"," ","d","i","d"," ","f","a","i","l",":"," ","T","e","n","a","n","t"," ","g","o","n","e">>
exApiTimeout ==
    <<"O","p"," ","d","i","d"," ","f","a","i","l",":"," ","A","P","I"," ","T","i","m","e","o","u","t">>
exNetworkDown ==
    <<"O","p"," ","d","i","d"," ","f","a","i","l",":"," ","n","e","t","w","o","r","k"," ","d","o","w","n">>
exPermission ==
    <<"O","p"," ","d","i","d"," ","f","a","i","l",":"," ","P","e","r","m","i","s","s","i","o","n"," ","d","e","n","i","e","d">>
exUnauthorized ==
    <<"O","p"," ","d","i","d"," ","f","a","i","l",":"," ","u","n","a","u","t","h","o","r","i","z","e","d">>
exBadParameter ==
    <<"O","p"," ","d","i","d"," ","f","a","i","l",":"," ","b","a","d"," ","P","a","r","a","m","e","t","e","r">>
exNullInput ==
    <<"O","p"," ","d","i","d"," ","f","a","i","l",":"," ","n","u","l","l"," ","i","n","p","u","t">>
exAuthentication ==
    <<"O","p"," ","d","i","d"," ","f","a","i","l",":"," ","a","u","t","h","e","n","t","i","c","a","t","i","o","n">>
exInvalid ==
    <<"O","p"," ","d","i","d"," ","f","a","i","l",":"," ","i","n","v","a","l","i","d">>
exQuota ==
    <<"O","p"," ","d","i","d"," ","f","a","i","l",":"," ","q","u","o","t","a">>
kwContext ==
    <<"c","o","n","t","e","x","t">>
kwTenant ==
    <<"t","e","n","a","n","t">>
kwTimeout ==
    <<"t","i","m","e","o","u","t">>
kwNetwork ==
    <<"n","e","t","w","o","r","k">>
kwPermission ==
    <<"p","e","r","m","i","s","s","i","o","n">>
kwUnauthorized ==
    <<"u","n","a","u","t","h","o","r","i","z","e","d">>
kwParameter ==
    <<"p","a","r","a","m","e","t","e","r">>
kwInput ==
    <<"i","n","p","u","t">>
kwAuthentication ==
    <<"a","u","t","h","e","n","t","i","c","a","t","i","o","n">>
kwInvalid ==
    <<"i","n","v","a","l","i","d">>
catGrounding ==
    <<"g","r","o","u","n","d","i","n","g">>
catTimeout ==
    <<"t","i","m","e","o","u","t">>
catAuth ==
    <<"a","u","t","h">>
catInput ==
    <<"i","n","p","u","t">>
catApi ==
    <<"a","p","i">>
tagHighVolume ==
    <<"h","i","g","h","-","v","o","l","u","m","e">>
tagContextMissing ==
    <<"c","o","n","t","e","x","t","-","m","i","s","s","i","n","g">>
idPrefix ==
    <<"c","l","u","s","t","e","r","_">>
descGrounding ==
    <<"M","i","s","s","i","n","g"," ","o","r"," ","i","n","v","a","l","i","d"," ","u","s","e","r","/","t","e","n","a","n","t"," ","c","o","n","t","e","x","t">>
descTimeout ==
    <<"A","P","I"," ","t","i","m","e","o","u","t","s"," ","o","r"," ","n","e","t","w","o","r","k"," ","c","o","n","n","e","c","t","i","v","i","t","y"," ","i","s","s","u","e","s">>
descAuth ==
    <<"A","u","t","h","o","r","i","z","a","t","i","o","n"," ","o","r"," ","p","e","r","m","i","s","s","i","o","n"," ","i","s","s","u","e","s">>
descInput ==
    <<"I","n","v","a","l","i","d"," ","o","r"," ","m","i","s","s","i","n","g"," ","s","k","i","l","l"," ","i","n","p","u","t"," ","p","a","r","a","m","e","t","e","r","s">>
descApi ==
    <<"G","e","n","e","r","a","l"," ","A","P","I"," ","o","r"," ","s","e","r","v","i","c","e"," ","i","s","s","u","e","s">>
recGrounding1 ==
    <<"F","i","x"," ","g","r","o","u","n","d","i","n","g"," ","l","o","g","i","c"," ","f","o","r"," ","u","s","e","r","O","b","j","e","c","t"," ","i","n"," ","t","e","n","a","n","t"," ","c","o","n","t","e","x","t">>
recGrounding2 ==
    <<"A","d","d"," ","v","a","l","i","d","a","t","i","o","n"," ","f","o","r"," ","r","e","q","u","i","r","e","d"," ","c","o","n","t","e","x","t"," ","f","i","e","l","d","s">>
recGrounding3 ==
    <<"I","m","p","l","e","m","e","n","t"," ","f","a","l","l","b","a","c","k"," ","c","o","n","t","e","x","t"," ","r","e","s","o","l","u","t","i","o","n">>
recTimeout1 ==
    <<"I","n","c","r","e","a","s","e"," ","A","P","I"," ","t","i","m","e","o","u","t"," ","t","h","r","e","s","h","o","l","d","s">>
recTimeout2 ==
    <<"I","m","p","l","e","m","e","n","t"," ","r","e","t","r","y"," ","l","o","g","i","c"," ","w","i","t","h"," ","e","x","p","o","n","e","n","t","i","a","l"," ","b","a","c","k","o","f","f">>
recTimeout3 ==
    <<"A","d","d"," ","c","i","r","c","u","i","t"," ","b","r","e","a","k","e","r"," ","p","a","t","t","e","r","n"," ","f","o","r"," ","f","a","i","l","i","n","g"," ","s","e","r","v","i","c","e","s">>
recAuth1 ==
    <<"R","e","v","i","e","w"," ","a","n","d"," ","u","p","d","a","t","e"," ","s","e","r","v","i","c","e"," ","p","r","i","n","c","i","p","a","l"," ","p","e","r","m","i","s","s","i","o","n","s">>
recAuth2 ==
    <<"I","m","p","l","e","m","e","n","t"," ","p","r","o","p","e","r"," ","t","o","k","e","n"," ","r","e","f","r","e","s","h"," ","m","e","c","h","a","n","i","s","m">>
recAuth3 ==
    <<"A","d","d"," ","u","s","e","r"," ","p","e","r","m","i","s","s","i","o","n"," ","v","a","l","i","d","a","t","i","o","n"," ","b","e","f","o","r","e"," ","s","k","i","l","l"," ","e","x","e","c","u","t","i","o","n">>
recInput1a ==
    <<"U","p","d","a","t","e"," ">>
recInput1b ==
    <<" ","s","k","i","l","l"," ","t","o"," ","h","a","n","d","l","e"," ","n","u","l","l"," ","v","a","l","u","e","s"," ","g","r","a","c","e","f","u","l","l","y">>
recInput2 ==
    <<"A","d","d"," ","i","n","p","u","t"," ","p","a","r","a","m","e","t","e","r"," ","v","a","l","i","d","a","t","i","o","n">>
recInput3 ==
    <<"P","r","o","v","i","d","e"," ","b","e","t","t","e","r"," ","e","r","r","o","r"," ","m","e","s","s","a","g","e","s"," ","f","o","r"," ","m","i","s","s","i","n","g"," ","i","n","p","u","t","s">>
recApi1 ==
    <<"M","o","n","i","t","o","r"," ","A","P","I"," ","h","e","a","l","t","h"," ","a","n","d"," ","p","e","r","f","o","r","m","a","n","c","e">>
recApi2 ==
    <<"R","e","v","i","e","w"," ","s","e","r","v","i","c","e"," ","d","e","p","e","n","d","e","n","c","i","e","s">>
recApi3 ==
    <<"I","m","p","l","e","m","e","n","t"," ","c","o","m","p","r","e","h","e","n","s","i","v","e"," ","e","r","r","o","r"," ","h","a","n","d","l","i","n","g">>
nameSep ==
    <<" ","-"," ">>
nameGrounding ==
    <<"C","o","n","t","e","x","t"," ","I","s","s","u","e","s">>
nameTimeout ==
    <<"T","i","m","e","o","u","t"," ","F","a","i","l","u","r","e","s">>
nameAuth ==
    <<"P","e","r","m","i","s","s","i","o","n"," ","E","r","r","o","r","s">>
nameInput ==
    <<"I","n","p","u","t"," ","V","a","l","i","d","a","t","i","o","n">>
nameApi ==
    <<"A","P","I"," ","F","a","i","l","u","r","e","s">>
sumGrounding1 ==
    <<"M","i","s","s","i","n","g"," ","u","s","e","r"," ","c","o","n","t","e","x","t"," ","i","n"," ">>
sumGrounding2 ==
    <<" ","q","u","e","r","i","e","s"," ","(">>
sumTimeout1 ==
    <<"A","P","I"," ","t","i","m","e","o","u","t","s"," ","i","n"," ">>
sumTimeout2 ==
    <<" ","o","p","e","r","a","t","i","o","n","s"," ","(">>
sumAuth1 ==
    <<"P","e","r","m","i","s","s","i","o","n"," ","e","r","r","o","r","s"," ","i","n"," ">>
sumAuth2 ==
    <<" ","e","x","e","c","u","t","i","o","n"," ","(">>
sumInput1 ==
    <<"I","n","v","a","l","i","d"," ","i","n","p","u","t","s"," ","t","o"," ">>
sumInput2 ==
    <<" ","s","k","i","l","l"," ","(">>
sumApi1 ==
    <<"S","e","r","v","i","c","e"," ","e","r","r","o","r","s"," ","i","n"," ">>
sumApi2 ==
    <<" ","A","P","I"," ","c","a","l","l","s"," ","(">>
sumTail ==
    <<" ","f","a","i","l","u","r","e","s",")">>
prFindUser ==
    <<"F","i","n","d"," ","u","s","e","r"," ","J","o","h","n"," ","S","m","i","t","h">>
prResetPassword ==
    <<"R","e","s","e","t"," ","p","a","s","s","w","o","r","d"," ","f","o","r"," ","u","s","e","r","@","c","o","m","p","a","n","y",".","c","o","m">>
cmUserContext ==
    <<"u","s","e","r","C","o","n","t","e","x","t">>
cmTenantInfo ==
    <<"t","e","n","a","n","t","I","n","f","o">>

\* exceptions whose first three words agree and are spaced differently
exTimeoutNow ==
    <<"A","P","I"," ","t","i","m","e","o","u","t"," ","n","o","w">>
exTimeoutNowWide ==
    <<"A","P","I"," "," ","t","i","m","e","o","u","t"," ","n","o","w">>
exTimeoutShort ==
    <<"A","P","I"," ","t","i","m","e","o","u","t">>
exTimeoutNowTab ==
    <<"A","P","I","\t","t","i","m","e","o","u","t"," ","n","o","w">>

\* exceptions of the input category whose keys coincide under the skills
\* User and User_Lookup
exLookupInput ==
    <<"L","o","o","k","u","p"," ","i","n","p","u","t">>
exInput ==
    <<"i","n","p","u","t">>

\* tool names, error texts and a cluster id that no snapshot holds
toolGetFailureAnalytics ==
    <<"g","e","t","_","f","a","i","l","u","r","e","_","a","n","a","l","y","t","i","c","s">>
toolGetClusters ==
    <<"g","e","t","_","c","l","u","s","t","e","r","s">>
toolGetFailureLogs ==
    <<"g","e","t","_","f","a","i","l","u","r","e","_","l","o","g","s">>
toolAnalyzeTrends ==
    <<"a","n","a","l","y","z","e","_","t","r","e","n","d","s">>
toolGetRecommendations ==
    <<"g","e","t","_","r","e","c","o","m","m","e","n","d","a","t","i","o","n","s">>
toolDeleteCluster ==
    <<"d","e","l","e","t","e","_","c","l","u","s","t","e","r">>
msgErrorPrefix ==
    <<"E","r","r","o","r",":"," ">>
msgUnknownTool ==
    <<"U","n","k","n","o","w","n"," ","t","o","o","l",":"," ">>
msgCluster ==
    <<"C","l","u","s","t","e","r"," ">>
msgNotFound ==
    <<" ","n","o","t"," ","f","o","u","n","d">>
msgNotConnected ==
    <<"M","C","P"," ","C","l","i","e","n","t"," ","n","o","t"," ","c","o","n","n","e","c","t","e","d">>
idMissing ==
    <<"c","l","u","s","t","e","r","_","m","i","s","s","i","n","g">>

(***************************************************************************)
(* Bounds of the model.                                                    *)
(***************************************************************************)
MaxLogs == 3
MaxThreshold == 2
MaxTimestamp == 2
MaxMembers == 3
MaxBulk == 52

MaxSpacedLogs == 3

MaxTagLogs == 3

MaxPairLogs == 2

MaxRecLogs == 3

MaxPromptLogs == 6

MaxMockGroup == 3

(***************************************************************************)
(* JavaScript built-ins used by the engine.                                *)
(***************************************************************************)
LowerOf ==
    [A |-> "a", B |-> "b", C |-> "c", D |-> "d", E |-> "e", F |-> "f",
     G |-> "g", H |-> "h", I |-> "i", J |-> "j", K |-> "k", L |-> "l",
     M |-> "m", N |-> "n", O |-> "o", P |-> "p", Q |-> "q", R |-> "r",
     S |-> "s", T |-> "t", U |-> "u", V |-> "v", W |-> "w", X |-> "x",
     Y |-> "y", Z |-> "z"]

\* the exception used as it is, without toLowerCase
ToLowerCaseOmitted(s) == s

\* String.prototype.toLowerCase
ToLowerCase(s) ==
    [i \in 1..Len(s) |-> IF s[i] \in DOMAIN LowerOf THEN LowerOf[s[i]] ELSE s[i]]

\* String.prototype.includes, for a non-empty needle
Includes(s, k) ==
    \E i \in 1..(Len(s) - Len(k) + 1) : SubSeq(s, i, i + Len(k) - 1) = k

RECURSIVE SplitFrom(_, _, _, _)
SplitFrom(s, sep, i, cur) ==
    IF i > Len(s) THEN <<cur>>
    ELSE IF s[i] = sep THEN <<cur>> \o SplitFrom(s, sep, i + 1, <<>>)
    ELSE SplitFrom(s, sep, i + 1, Append(cur, s[i]))

\* String.prototype.split with a one-character separator
Split(s, sep) == SplitFrom(s, sep, 1, <<>>)

\* Array.prototype.slice(begin, end) with 0 <= begin <= end
Slice(a, begin, end) ==
    SubSeq(a, begin + 1, IF end < Len(a) THEN end ELSE Len(a))

RECURSIVE Join(_, _)
\* Array.prototype.join
Join(a, sep) ==
    IF Len(a) = 0 THEN <<>>
    ELSE IF Len(a) = 1 THEN a[1]
    ELSE a[1] \o sep \o Join(Tail(a), sep)

\* [...new Set(a)]: the distinct elements in order of first occurrence
Distinct(a) ==
    LET kept == {i \in 1..Len(a) : \A j \in 1..(i - 1) : a[j] # a[i]}
    IN [k \in 1..Cardinality(kept) |->
            a[CHOOSE i \in kept : Cardinality({j \in kept : j <= i}) = k]]

DigitChar == <<"0","1","2","3","4","5","6","7","8","9">>

RECURSIVE ToDecimal(_)
\* template interpolation of a non-negative integer
ToDecimal(n) ==
    IF n < 10 THEN <<DigitChar[n + 1]>>
    ELSE ToDecimal(n \div 10) \o <<DigitChar[(n % 10) + 1]>>

\* Math.min(...a) and Math.max(...a) of a non-empty array
MathMin(a) ==
    CHOOSE m \in {a[i] : i \in 1..Len(a)} : \A i \in 1..Len(a) : m <= a[i]

MathMax(a) ==
    CHOOSE m \in {a[i] : i \in 1..Len(a)} : \A i \in 1..Len(a) : m >= a[i]

\* Array.prototype.sort is stable: element i ends up behind every element
\* that compares before it and behind the equal elements that stood before it.
\* logs.sort((a, b) => a.timestamp.getTime() - b.timestamp.getTime())
SortByTimestamp(a) ==
    LET Cmp(x, y) == x.timestamp - y.timestamp
        rank == [i \in 1..Len(a) |->
                    Cardinality({j \in 1..Len(a) :
                        \/ Cmp(a[j], a[i]) < 0
                        \/ Cmp(a[j], a[i]) = 0 /\ j < i}) + 1]
    IN [p \in 1..Len(a) |-> a[CHOOSE i \in 1..Len(a) : rank[i] = p]]

\* the comparator with its operands exchanged: a.failureCount - b.failureCount
SortByFailureCountAscending(a) ==
    LET Cmp(x, y) == x.failureCount - y.failureCount
        rank == [i \in 1..Len(a) |->
                    Cardinality({j \in 1..Len(a) :
                        \/ Cmp(a[j], a[i]) < 0
                        \/ Cmp(a[j], a[i]) = 0 /\ j < i}) + 1]
    IN [p \in 1..Len(a) |-> a[CHOOSE i \in 1..Len(a) : rank[i] = p]]

\* clusters.sort((a, b) => b.failureCount - a.failureCount)
SortByFailureCount(a) ==
    LET Cmp(x, y) == y.failureCount - x.failureCount
        rank == [i \in 1..Len(a) |->
                    Cardinality({j \in 1..Len(a) :
                        \/ Cmp(a[j], a[i]) < 0
                        \/ Cmp(a[j], a[i]) = 0 /\ j < i}) + 1]
    IN [p \in 1..Len(a) |-> a[CHOOSE i \in 1..Len(a) : rank[i] = p]]

(***************************************************************************)
(* dataProcessor.ts                                                        *)
(***************************************************************************)
\* the grouping key of line 66
GroupKey(log) ==
    log.skillName \o <<"_">> \o Join(Slice(Split(log.exception, " "), 0, 3), <<"_">>)

\* exceptions.every in place of exceptions.some
EveryException(logs, k1, k2) ==
    \A i \in 1..Len(logs) :
        LET e == ToLowerCase(logs[i].exception)
        IN Includes(e, k1) \/ Includes(e, k2)

\* exceptions.some(e => e.includes(k1) || e.includes(k2))
AnyException(logs, k1, k2) ==
    \E i \in 1..Len(logs) :
        LET e == ToLowerCase(logs[i].exception)
        IN Includes(e, k1) \/ Includes(e, k2)

\* the input test placed before the auth test
DetermineRootCauseInputFirst(logs) ==
    IF AnyException(logs, kwContext, kwTenant)
    THEN [category |-> catGrounding, description |-> descGrounding, confidence |-> 85]
    ELSE IF AnyException(logs, kwTimeout, kwNetwork)
    THEN [category |-> catTimeout, description |-> descTimeout, confidence |-> 90]
    ELSE IF AnyException(logs, kwParameter, kwInput)
    THEN [category |-> catInput, description |-> descInput, confidence |-> 82]
    ELSE IF AnyException(logs, kwPermission, kwUnauthorized)
    THEN [category |-> catAuth, description |-> descAuth, confidence |-> 88]
    ELSE [category |-> catApi, description |-> descApi, confidence |-> 70]

DetermineRootCause(logs) ==
    IF AnyException(logs, kwContext, kwTenant)
    THEN [category |-> catGrounding, description |-> descGrounding, confidence |-> 85]
    ELSE IF AnyException(logs, kwTimeout, kwNetwork)
    THEN [category |-> catTimeout, description |-> descTimeout, confidence |-> 90]
    ELSE IF AnyException(logs, kwPermission, kwUnauthorized)
    THEN [category |-> catAuth, description |-> descAuth, confidence |-> 88]
    ELSE IF AnyException(logs, kwParameter, kwInput)
    THEN [category |-> catInput, description |-> descInput, confidence |-> 82]
    ELSE [category |-> catApi, description |-> descApi, confidence |-> 70]

\* generateRecommendations naming the skill of the last member
GenerateRecommendationsOfLast(rootCause, skillName, logs) ==
    CASE rootCause.category = catGrounding -> <<recGrounding1, recGrounding2, recGrounding3>>
      [] rootCause.category = catTimeout -> <<recTimeout1, recTimeout2, recTimeout3>>
      [] rootCause.category = catAuth -> <<recAuth1, recAuth2, recAuth3>>
      [] rootCause.category = catInput ->
            <<recInput1a \o logs[Len(logs)].skillName \o recInput1b,
              recInput2, recInput3>>
      [] OTHER -> <<recApi1, recApi2, recApi3>>

GenerateRecommendations(rootCause, skillName, logs) ==
    CASE rootCause.category = catGrounding -> <<recGrounding1, recGrounding2, recGrounding3>>
      [] rootCause.category = catTimeout -> <<recTimeout1, recTimeout2, recTimeout3>>
      [] rootCause.category = catAuth -> <<recAuth1, recAuth2, recAuth3>>
      [] rootCause.category = catInput ->
            <<recInput1a \o skillName \o recInput1b, recInput2, recInput3>>
      [] OTHER -> <<recApi1, recApi2, recApi3>>

GenerateClusterName(rootCause, skillName) ==
    LET categoryNames ==
            CASE rootCause.category = catGrounding -> nameGrounding
              [] rootCause.category = catTimeout -> nameTimeout
              [] rootCause.category = catAuth -> nameAuth
              [] rootCause.category = catInput -> nameInput
              [] OTHER -> nameApi
    IN skillName \o nameSep \o categoryNames

GenerateClusterSummary(rootCause, skillName, count) ==
    LET n == ToDecimal(count) \o sumTail
    IN CASE rootCause.category = catGrounding -> sumGrounding1 \o skillName \o sumGrounding2 \o n
         [] rootCause.category = catTimeout -> sumTimeout1 \o skillName \o sumTimeout2 \o n
         [] rootCause.category = catAuth -> sumAuth1 \o skillName \o sumAuth2 \o n
         [] rootCause.category = catInput -> sumInput1 \o skillName \o sumInput2 \o n
         [] OTHER -> sumApi1 \o skillName \o sumApi2 \o n

\* determineTrend without the factor 1.2 in line 229
DetermineTrendNoMargin(logs) ==
    LET sorted == SortByTimestamp(logs)
        midpoint == Len(sorted) \div 2
        firstHalf == Slice(sorted, 0, midpoint)
        secondHalf == Slice(sorted, midpoint, Len(sorted))
    IN IF Len(secondHalf) > Len(firstHalf) THEN "increasing"
       ELSE IF Len(secondHalf) * 10 < Len(firstHalf) * 8 THEN "decreasing"
       ELSE "stable"

\* determineTrend with the midpoint rounded up
DetermineTrendRoundedUp(logs) ==
    LET sorted == SortByTimestamp(logs)
        midpoint == (Len(sorted) + 1) \div 2
        firstHalf == Slice(sorted, 0, midpoint)
        secondHalf == Slice(sorted, midpoint, Len(sorted))
    IN IF Len(secondHalf) * 10 > Len(firstHalf) * 12 THEN "increasing"
       ELSE IF Len(secondHalf) * 10 < Len(firstHalf) * 8 THEN "decreasing"
       ELSE "stable"

\* the label returned by determineTrend; 1.2 and 0.8 are compared in tenths
DetermineTrend(logs) ==
    LET sorted == SortByTimestamp(logs)
        midpoint == Len(sorted) \div 2
        firstHalf == Slice(sorted, 0, midpoint)
        secondHalf == Slice(sorted, midpoint, Len(sorted))
    IN IF Len(secondHalf) * 10 > Len(firstHalf) * 12 THEN "increasing"
       ELSE IF Len(secondHalf) * 10 < Len(firstHalf) * 8 THEN "decreasing"
       ELSE "stable"

\* l.contextMissing is truthy: an empty array counts
HasContextMissingArray(l) == l.contextMissing.defined

\* l.contextMissing?.length is truthy
HasContextMissing(l) == l.contextMissing.defined /\ Len(l.contextMissing.items) > 0

GenerateTags(rootCause, logs) ==
    LET skills == Distinct([i \in 1..Len(logs) |-> logs[i].skillName])
    IN <<rootCause.category>>
       \o [i \in 1..Len(skills) |-> ToLowerCase(skills[i])]
       \o (IF Len(logs) > 50 THEN <<tagHighVolume>> ELSE <<>>)
       \o (IF \E i \in 1..Len(logs) : HasContextMissing(logs[i])
           THEN <<tagContextMissing>> ELSE <<>>)

\* the tiers with >= in place of >
SeverityInclusive(n) ==
    IF n >= 50 THEN "critical"
    ELSE IF n >= 20 THEN "high"
    ELSE IF n >= 10 THEN "medium"
    ELSE "low"

\* lines 94-96
Severity(n) ==
    IF n > 50 THEN "critical"
    ELSE IF n > 20 THEN "high"
    ELSE IF n > 10 THEN "medium"
    ELSE "low"

\* the timestamp of the first event of the group instead of the minimum
FirstSeenOfFirst(logs) == logs[1].timestamp

\* lines 98-99
FirstSeen(logs) == MathMin([i \in 1..Len(logs) |-> logs[i].timestamp])

\* lines 98, 100
LastSeen(logs) == MathMax([i \in 1..Len(logs) |-> logs[i].timestamp])

\* line 107 evaluated after determineTrend has sorted the group
RepresentativePromptsSorted(logs) ==
    LET first == Slice(SortByTimestamp(logs), 0, 5)
    IN Distinct([i \in 1..Len(first) |-> first[i].prompt])

\* line 107
RepresentativePrompts(logs) ==
    LET first == Slice(logs, 0, 5)
    IN Distinct([i \in 1..Len(first) |-> first[i].prompt])

\* line 108
CommonExceptions(logs) == Distinct([i \in 1..Len(logs) |-> logs[i].exception])

\* the skill of the first event instead of the skills of all events
AffectedSkillsOfFirst(logs) == <<logs[1].skillName>>

\* line 111
AffectedSkills(logs) == Distinct([i \in 1..Len(logs) |-> logs[i].skillName])

\* The object literal is evaluated field by field: determineTrend sorts the
\* group array in place when the trend field is reached, so tags and
\* failureLogs see the array sorted by timestamp, the fields before it do not.
CreateClusterFromLogs(logs, key) ==
    LET skillName == logs[1].skillName
        rootCause == DetermineRootCause(logs)
        recommendations == GenerateRecommendations(rootCause, skillName, logs)
        sorted == SortByTimestamp(logs)
    IN [id |-> idPrefix \o key,
        name |-> GenerateClusterName(rootCause, skillName),
        summary |-> GenerateClusterSummary(rootCause, skillName, Len(logs)),
        failureCount |-> Len(logs),
        representativePrompts |-> RepresentativePrompts(logs),
        commonExceptions |-> CommonExceptions(logs),
        rootCause |-> rootCause,
        recommendations |-> recommendations,
        affectedSkills |-> AffectedSkills(logs),
        severity |-> Severity(Len(logs)),
        firstSeen |-> FirstSeen(logs),
        lastSeen |-> LastSeen(logs),
        trend |-> DetermineTrend(logs),
        resolved |-> FALSE,
        tags |-> GenerateTags(rootCause, sorted),
        failureLogs |-> sorted]

\* set(key, [log]) on every event, also when the key is already present
MapPushOverwrite(groups, key, log) ==
    IF \E j \in 1..Len(groups) : groups[j].key = key
    THEN LET j == CHOOSE j \in 1..Len(groups) : groups[j].key = key
         IN [groups EXCEPT ![j].logs = <<log>>]
    ELSE Append(groups, [key |-> key, logs |-> <<log>>])

\* lines 67-70 without the has test: every event sets a new entry
MapPushNewEntry(groups, key, log) ==
    Append(groups, [key |-> key, logs |-> <<log>>])

\* lines 67-70 with the push moved into an else branch: the first event of
\* a key creates the entry and is not pushed
MapPushElse(groups, key, log) ==
    IF \E j \in 1..Len(groups) : groups[j].key = key
    THEN LET j == CHOOSE j \in 1..Len(groups) : groups[j].key = key
         IN [groups EXCEPT ![j].logs = Append(@, log)]
    ELSE Append(groups, [key |-> key, logs |-> <<>>])

\* errorGroups.set / errorGroups.get(key).push of lines 67-70; the Map is a
\* sequence of entries in insertion order of the keys
MapPush(groups, key, log) ==
    IF \E j \in 1..Len(groups) : groups[j].key = key
    THEN LET j == CHOOSE j \in 1..Len(groups) : groups[j].key = key
         IN [groups EXCEPT ![j].logs = Append(@, log)]
    ELSE Append(groups, [key |-> key, logs |-> <<log>>])

RECURSIVE GroupRange(_, _, _, _)
\* the forEach of lines 65-71 over ls[lo..hi], left to right, starting from
\* the Map groups.  The range is halved and the left half is computed before
\* the right half is entered (it holds ls[lo], so it is never empty), which
\* keeps the evaluation shallow for long arrays.
GroupRange(ls, lo, hi, groups) ==
    IF lo > hi THEN groups
    ELSE IF lo = hi THEN MapPush(groups, GroupKey(ls[lo]), ls[lo])
    ELSE LET mid == (lo + hi) \div 2
             left == GroupRange(ls, lo, mid, groups)
         IN IF Len(left) > 0 THEN GroupRange(ls, mid + 1, hi, left) ELSE left

\* logs.forEach of lines 65-71
GroupLogs(ls) == GroupRange(ls, 1, Len(ls), <<>>)

\* the threshold test with > in place of >=
MeetsThresholdStrict(groupLogs, min) == Len(groupLogs) > min

\* the threshold test left out
MeetsThresholdAlways(groupLogs, min) == TRUE

\* line 74
MeetsThreshold(groupLogs, min) == Len(groupLogs) >= min

RECURSIVE MaterializeGroups(_, _)
\* errorGroups.forEach of lines 73-78: the clusters pushed, in Map order
MaterializeGroups(groups, min) ==
    IF Len(groups) = 0 THEN <<>>
    ELSE LET init == MaterializeGroups(SubSeq(groups, 1, Len(groups) - 1), min)
             g == groups[Len(groups)]
         IN IF MeetsThreshold(g.logs, min)
            THEN Append(init, CreateClusterFromLogs(g.logs, g.key))
            ELSE init

\* the Map after the loop: the arrays of the materialized groups have been
\* sorted in place by determineTrend
GroupsAfterMaterialize(groups, min) ==
    [j \in 1..Len(groups) |->
        IF MeetsThreshold(groups[j].logs, min)
        THEN [key |-> groups[j].key, logs |-> SortByTimestamp(groups[j].logs)]
        ELSE groups[j]]

\* line 84 reads logs[0].skillName: a TypeError when a group that passes the
\* threshold test has no member
RaisesTypeError(groups, min) ==
    \E g \in 1..Len(groups) :
        MeetsThreshold(groups[g].logs, min) /\ Len(groups[g].logs) = 0

\* processFailureClusters as a whole, lines 59-81, for a call that returns
ProcessFailureClusters(ls, min) ==
    SortByFailureCount(MaterializeGroups(GroupLogs(ls), min))

\* the default of the parameter minClusterSize, line 59
DefaultMinClusterSize == 3

(***************************************************************************)
(* State: an invocation of processFailureClusters, a second invocation     *)
(* running beside it, the MCP server and the MCP client.                   *)
(***************************************************************************)
VARIABLES
    logs,            \* the caller's events array (parameter logs)
    minClusterSize,  \* parameter minClusterSize
    errorGroups,     \* the Map of line 63, entries in insertion order
    clusters,        \* the array of line 60
    result,          \* the returned array
    pc,              \* position in the function body
    other,           \* the locals of a second invocation, as a record
    mockData,        \* CopilotFailureMCPServer.mockData, the stored snapshot
    request,         \* the CallTool request the server handled last
    toolResult,      \* the result the server returned for it
    isConnected,     \* MCPClient.isConnected
    connectionStatus,\* MCPClient.connectionStatus
    clientCall       \* the last call on the client and how it settled

engineVars == <<logs, minClusterSize, errorGroups, clusters, result, pc>>
serverVars == <<mockData, request, toolResult>>
clientVars == <<isConnected, connectionStatus, clientCall>>
vars == <<logs, minClusterSize, errorGroups, clusters, result, pc, other,
          mockData, request, toolResult,
          isConnected, connectionStatus, clientCall>>

\* A FailureLog.  evaluationId stands for the identity of the event object
\* (the generator numbers the events by their position); the fields the
\* engine never reads (sessionId, skillInputs, errorCode) are left out.
FailureLog(i, c) ==
    [evaluationId |-> i,
     prompt |-> c.prompt,
     skillName |-> c.skillName,
     exception |-> c.exception,
     timestamp |-> c.timestamp,
     contextMissing |-> c.contextMissing]

\* every events array of at most n events whose contents are drawn from cs
EventLists(cs, n) ==
    UNION {{[i \in 1..k |-> FailureLog(i, f[i])] : f \in [1..k -> cs]} : k \in 0..n}

Repeat(c, n, from) == [i \in 1..n |-> FailureLog(from + i, c)]

NoContextMissing == [defined |-> TRUE, items |-> <<>>]

\* two exceptions that agree in their first three words under one skill,
\* and an unrelated exception under another skill
BaseContents ==
    {[prompt |-> prFindUser, skillName |-> p[1], exception |-> p[2],
      timestamp |-> t, contextMissing |-> NoContextMissing] :
        p \in {<<skUserLookup, exApiTimeout30>>,
               <<skDeviceQuery, exSkillConfig>>},
        t \in 1..MaxTimestamp}
    \cup
    {[prompt |-> prFindUser, skillName |-> skUserLookup,
      exception |-> exApiTimeout60, timestamp |-> 1,
      contextMissing |-> NoContextMissing]}

RootCauseContents ==
    [prompt : {prFindUser},
     skillName : {skUserLookup},
     exception : {exNoContext, exTenantGone, exApiTimeout, exNetworkDown,
                  exPermission, exUnauthorized, exBadParameter, exNullInput,
                  exAuthentication, exInvalid, exQuota},
     timestamp : {1},
     contextMissing : {NoContextMissing}]

\* skill names and exceptions whose grouping keys coincide although the
\* skills differ: User + "Lookup failed" and User_Lookup + "failed"
SkillContents ==
    [prompt : {prFindUser},
     skillName : {skUser, skUser_Lookup},
     exception : {exLookupFailed, exFailed},
     timestamp : {1},
     contextMissing : {NoContextMissing}]

BulkContent(e) ==
    [prompt |-> prFindUser, skillName |-> skUserLookup, exception |-> e,
     timestamp |-> 1, contextMissing |-> NoContextMissing]

\* no second invocation
NoInvocation ==
    [logs |-> <<>>, minClusterSize |-> 0, errorGroups |-> <<>>,
     clusters |-> <<>>, result |-> <<>>, pc |-> "absent"]

\* no server and no client: the engine is called directly
NoSnapshot ==
    [clusters |-> <<>>, failureLogs |-> <<>>, totalFailures |-> 0,
     criticalClusters |-> 0, resolvedClusters |-> 0]

NoRequest == [name |-> <<>>]

NoResult == [isError |-> FALSE, text |-> <<>>, payload |-> <<>>]

NoCall == [method |-> "none"]

EngineOnly ==
    /\ mockData = NoSnapshot
    /\ request = NoRequest
    /\ toolResult = NoResult
    /\ isConnected = FALSE
    /\ connectionStatus = "disconnected"
    /\ clientCall = NoCall

Start(ls, min) ==
    /\ logs = ls
    /\ minClusterSize = min
    /\ errorGroups = <<>>
    /\ clusters = <<>>
    /\ result = <<>>
    /\ pc = "start"
    /\ other = NoInvocation
    /\ EngineOnly

\* small arbitrary inputs
Init ==
    \E ls \in EventLists(BaseContents, MaxLogs), min \in 0..MaxThreshold :
        Start(ls, min)

\* inputs whose exceptions share their first three words and differ in the
\* keyword they carry
InitRootCause ==
    \E ls \in EventLists(RootCauseContents, MaxMembers) : Start(ls, 1)

\* inputs in which events of different skills can share a grouping key
InitSkills ==
    \E ls \in EventLists(SkillContents, MaxLogs), min \in 1..2 :
        Start(ls, min)

\* inputs made of one large natural group followed by a small one
InitBulk ==
    \E n \in 0..MaxBulk, m \in {0, 2}, min \in {4, 5} :
        Start(Repeat(BulkContent(exApiTimeout30), n, 0)
                \o Repeat(BulkContent(exSkillConfig), m, n), min)

\* lines 63-71
GroupStep ==
    /\ pc = "start"
    /\ errorGroups' = GroupLogs(logs)
    /\ pc' = "grouped"
    /\ UNCHANGED <<logs, minClusterSize, clusters, result>>
    /\ UNCHANGED <<other, serverVars, clientVars>>

\* lines 73-78 with determineTrend sorting the caller's array
MaterializeStepSortingInput ==
    /\ pc = "grouped"
    /\ clusters' = MaterializeGroups(errorGroups, minClusterSize)
    /\ errorGroups' = GroupsAfterMaterialize(errorGroups, minClusterSize)
    /\ logs' = SortByTimestamp(logs)
    /\ pc' = "materialized"
    /\ UNCHANGED <<minClusterSize, result>>
    /\ UNCHANGED <<other, serverVars, clientVars>>

\* lines 73-78; an exception leaves the function
MaterializeStep ==
    /\ pc = "grouped"
    /\ IF RaisesTypeError(errorGroups, minClusterSize)
       THEN /\ pc' = "threw"
            /\ UNCHANGED <<clusters, errorGroups>>
       ELSE /\ clusters' = MaterializeGroups(errorGroups, minClusterSize)
            /\ errorGroups' = GroupsAfterMaterialize(errorGroups, minClusterSize)
            /\ pc' = "materialized"
    /\ UNCHANGED <<logs, minClusterSize, result>>
    /\ UNCHANGED <<other, serverVars, clientVars>>

\* line 80: sort sorts the clusters array in place and returns it
ReturnStep ==
    /\ pc = "materialized"
    /\ clusters' = SortByFailureCount(clusters)
    /\ result' = clusters'
    /\ pc' = "done"
    /\ UNCHANGED <<logs, minClusterSize, errorGroups>>
    /\ UNCHANGED <<other, serverVars, clientVars>>

Next == GroupStep \/ MaterializeStep \/ ReturnStep

Spec == Init /\ [][Next]_vars
SpecRootCause == InitRootCause /\ [][Next]_vars
SpecBulk == InitBulk /\ [][Next]_vars
SpecSkills == InitSkills /\ [][Next]_vars


\* one natural group of n events whose timestamps follow the scan order,
\* run against it, alternate or all agree
MaxTrendLogs == 12
StampPatterns == {"same", "ascending", "descending", "alternating"}

Stamp(pattern, i, n) ==
    CASE pattern = "ascending" -> i
      [] pattern = "descending" -> n + 1 - i
      [] pattern = "alternating" -> 1 + (i % 2)
      [] OTHER -> 1

InitTrend ==
    \E n \in 0..MaxTrendLogs, pattern \in StampPatterns :
        Start([i \in 1..n |->
                 FailureLog(i, [BulkContent(exApiTimeout30)
                                  EXCEPT !.timestamp = Stamp(pattern, i, n)])], 1)

SpecTrend == InitTrend /\ [][Next]_vars

\* one skill, exceptions that differ in the whitespace between their words
WhitespaceContents ==
    [prompt : {prFindUser},
     skillName : {skUserLookup},
     exception : {exTimeoutNow, exTimeoutNowWide, exTimeoutNowTab,
                  exTimeoutShort},
     timestamp : {1},
     contextMissing : {NoContextMissing}]

InitWhitespace ==
    \E ls \in EventLists(WhitespaceContents, MaxSpacedLogs), min \in 1..2 :
        Start(ls, min)

SpecWhitespace == InitWhitespace /\ [][Next]_vars

\* the optional field contextMissing left out of the event
AbsentContextMissing == [defined |-> FALSE, items |-> <<>>]

SomeContextMissing == [defined |-> TRUE, items |-> <<cmUserContext, cmTenantInfo>>]

\* events of two skills with one grouping key; contextMissing is absent,
\* empty or filled
TagContents ==
    {[prompt |-> prFindUser, skillName |-> p[1], exception |-> p[2],
      timestamp |-> 1, contextMissing |-> cm] :
        p \in {<<skUser, exLookupFailed>>, <<skUser_Lookup, exFailed>>},
        cm \in {AbsentContextMissing, NoContextMissing, SomeContextMissing}}

TagBulkContent(cm) ==
    [prompt |-> prFindUser, skillName |-> skUser, exception |-> exLookupFailed,
     timestamp |-> 1, contextMissing |-> cm]

\* small inputs under thresholds from -1 up, and groups of 50, 51 and 52
\* events in which only the last event may differ in contextMissing
InitTags ==
    \/ \E ls \in EventLists(TagContents, MaxTagLogs), min \in -1..2 :
          Start(ls, min)
    \/ \E n \in 49..51,
          cm1, cm2 \in {AbsentContextMissing, NoContextMissing, SomeContextMissing} :
          Start(Repeat(TagBulkContent(cm1), n, 0)
                  \o Repeat(TagBulkContent(cm2), 1, n), 1)

SpecTags == InitTags /\ [][Next]_vars

\* input exceptions under two skills with one key and either timestamp,
\* two api keys, and three exceptions of one key that carry a grounding, a
\* timeout and an auth keyword
RecContents ==
    {[prompt |-> prFindUser, skillName |-> p[1], exception |-> p[2],
      timestamp |-> t, contextMissing |-> NoContextMissing] :
        p \in {<<skUser, exLookupInput>>, <<skUser_Lookup, exInput>>},
        t \in {1, 2}}
    \cup
    {[prompt |-> prFindUser, skillName |-> p[1], exception |-> p[2],
      timestamp |-> 1, contextMissing |-> NoContextMissing] :
        p \in {<<skUser, exLookupFailed>>, <<skUser, exFailed>>,
               <<skUserLookup, exNoContext>>, <<skUserLookup, exApiTimeout>>,
               <<skUserLookup, exPermission>>}}

InitRecs ==
    \E ls \in EventLists(RecContents, MaxRecLogs) : Start(ls, 1)

SpecRecs == InitRecs /\ [][Next]_vars

\* events of one key: one prompt early or late, another prompt early
PromptContents ==
    {[prompt |-> p[1], skillName |-> skUserLookup, exception |-> exApiTimeout30,
      timestamp |-> p[2], contextMissing |-> NoContextMissing] :
        p \in {<<prFindUser, 1>>, <<prFindUser, 2>>, <<prResetPassword, 1>>}}

InitPrompts ==
    \E ls \in EventLists(PromptContents, MaxPromptLogs) : Start(ls, 1)

SpecPrompts == InitPrompts /\ [][Next]_vars

(***************************************************************************)
(* A second invocation of processFailureClusters whose steps interleave    *)
(* with those of the first.  It is called either with the first caller's   *)
(* array itself (other.shared) or with an array of its own.                *)
(***************************************************************************)
OtherLogs == IF other.shared THEN logs ELSE other.logs

Reverse(s) == [i \in 1..Len(s) |-> s[Len(s) + 1 - i]]

PairContents ==
    {[prompt |-> prFindUser, skillName |-> p[1], exception |-> p[2],
      timestamp |-> t, contextMissing |-> NoContextMissing] :
        p \in {<<skUserLookup, exApiTimeout30>>, <<skDeviceQuery, exSkillConfig>>},
        t \in {1, 2}}

InitPair ==
    \E ls \in EventLists(PairContents, MaxPairLogs),
       min \in 1..2, minOther \in 1..2, sh \in BOOLEAN :
        /\ logs = ls
        /\ minClusterSize = min
        /\ errorGroups = <<>>
        /\ clusters = <<>>
        /\ result = <<>>
        /\ pc = "start"
        /\ other = [shared |-> sh,
                    logs |-> IF sh THEN <<>> ELSE Reverse(ls),
                    minClusterSize |-> minOther,
                    errorGroups |-> <<>>, clusters |-> <<>>, result |-> <<>>,
                    pc |-> "start"]
        /\ EngineOnly

\* lines 63-71 in the second invocation, with the Map of line 63 declared
\* outside the function and used by both invocations
GroupStepOtherSharedMap ==
    /\ other.pc = "start"
    /\ errorGroups' = GroupRange(OtherLogs, 1, Len(OtherLogs), errorGroups)
    /\ other' = [other EXCEPT !.errorGroups = errorGroups', !.pc = "grouped"]
    /\ UNCHANGED <<logs, minClusterSize, clusters, result, pc>>
    /\ UNCHANGED <<serverVars, clientVars>>

\* lines 63-71 in the second invocation
GroupStepOther ==
    /\ other.pc = "start"
    /\ other' = [other EXCEPT !.errorGroups = GroupLogs(OtherLogs),
                              !.pc = "grouped"]
    /\ UNCHANGED <<engineVars, serverVars, clientVars>>

\* lines 73-78 in the second invocation
MaterializeStepOther ==
    /\ other.pc = "grouped"
    /\ other' =
          IF RaisesTypeError(other.errorGroups, other.minClusterSize)
          THEN [other EXCEPT !.pc = "threw"]
          ELSE [other EXCEPT
                  !.clusters = MaterializeGroups(other.errorGroups,
                                                 other.minClusterSize),
                  !.errorGroups = GroupsAfterMaterialize(other.errorGroups,
                                                         other.minClusterSize),
                  !.pc = "materialized"]
    /\ UNCHANGED <<engineVars, serverVars, clientVars>>

\* line 80 in the second invocation
ReturnStepOther ==
    /\ other.pc = "materialized"
    /\ other' = [other EXCEPT !.clusters = SortByFailureCount(other.clusters),
                              !.result = SortByFailureCount(other.clusters),
                              !.pc = "done"]
    /\ UNCHANGED <<engineVars, serverVars, clientVars>>

NextPair ==
    \/ GroupStep \/ MaterializeStep \/ ReturnStep
    \/ GroupStepOther \/ MaterializeStepOther \/ ReturnStepOther

SpecPair == InitPair /\ [][NextPair]_vars

(***************************************************************************)
(* The MCP server (CopilotFailureMCPServer) and the MCP client (MCPClient). *)
(* The server keeps one snapshot, mockData, built by refreshMockData; its  *)
(* generator module exports the generateMockData and                       *)
(* processFailureClusters that the client imports from dataProcessor.  The *)
(* random events of generateMockData are a choice among MockLists.  The    *)
(* wall-clock fields (lastUpdated, generatedAt) are left out.              *)
(***************************************************************************)
\* an optional argument: left out, or present with a value
Absent == [defined |-> FALSE]
Given(v) == [defined |-> TRUE, value |-> v]

MockContent(skill, e) ==
    [prompt |-> prFindUser, skillName |-> skill, exception |-> e,
     timestamp |-> 1, contextMissing |-> NoContextMissing]

\* a events of one key followed by b events of another
MockSizes == {0, MaxMockGroup}

MockLists ==
    {Repeat(MockContent(skUserLookup, exApiTimeout30), a, 0)
       \o Repeat(MockContent(skDeviceQuery, exSkillConfig), b, a) :
          a \in MockSizes, b \in MockSizes}

\* the object assigned at lines 83-90 with !c.resolved in line 89
SnapshotCountingOpen(failureLogs) ==
    LET cs == ProcessFailureClusters(failureLogs, DefaultMinClusterSize)
    IN [clusters |-> cs,
        failureLogs |-> failureLogs,
        totalFailures |-> Len(failureLogs),
        criticalClusters |-> Len(SelectSeq(cs, LAMBDA c : c.severity = "critical")),
        resolvedClusters |-> Len(SelectSeq(cs, LAMBDA c : ~c.resolved))]

\* the object assigned at lines 83-90 with processFailureClusters called
\* with a threshold of 1 in line 81
SnapshotOfAllGroups(failureLogs) ==
    LET cs == ProcessFailureClusters(failureLogs, 1)
    IN [clusters |-> cs,
        failureLogs |-> failureLogs,
        totalFailures |-> Len(failureLogs),
        criticalClusters |-> Len(SelectSeq(cs, LAMBDA c : c.severity = "critical")),
        resolvedClusters |-> Len(SelectSeq(cs, LAMBDA c : c.resolved))]

\* the object assigned at lines 83-90
Snapshot(failureLogs) ==
    LET cs == ProcessFailureClusters(failureLogs, DefaultMinClusterSize)
    IN [clusters |-> cs,
        failureLogs |-> failureLogs,
        totalFailures |-> Len(failureLogs),
        criticalClusters |-> Len(SelectSeq(cs, LAMBDA c : c.severity = "critical")),
        resolvedClusters |-> Len(SelectSeq(cs, LAMBDA c : c.resolved))]

\* what refreshMockData (lines 79-91) can store, and what the client's
\* generateMockData and processFailureClusters (lines 221-222) can yield
MockSnapshots == {Snapshot(ls) : ls \in MockLists}
MockClusterings ==
    {ProcessFailureClusters(ls, DefaultMinClusterSize) : ls \in MockLists}

\* a tool result without isError, and the result built by the catch clause
\* of lines 202-211
Success(payload) == [isError |-> FALSE, text |-> <<>>, payload |-> payload]
Failure(message) ==
    [isError |-> TRUE, text |-> msgErrorPrefix \o message, payload |-> <<>>]

\* clusters.find(c => c.id === clusterId)
FindCluster(cs, clusterId) ==
    LET hits == {j \in 1..Len(cs) : cs[j].id = clusterId}
    IN IF hits = {} THEN Absent
       ELSE Given(cs[CHOOSE j \in hits : \A k \in hits : j <= k])

\* the object of lines 349-360 (228-239 in the client)
ClusterRecommendations(clusterId, cluster) ==
    [clusterId |-> clusterId,
     clusterName |-> cluster.name,
     priority |-> cluster.severity,
     aiRecommendations |-> cluster.recommendations,
     confidenceScore |-> cluster.rootCause.confidence,
     impactAssessment |-> IF cluster.severity = "critical"
                          THEN "High business impact" ELSE "Moderate impact"]

\* the object of lines 363-378 (241-257 in the client)
GlobalRecommendations(cs) ==
    LET critical == SelectSeq(cs, LAMBDA c : c.severity = "critical")
        top == Slice(critical, 0, 3)
    IN [global |-> TRUE,
        topPriorities |-> [i \in 1..Len(top) |->
                              [clusterId |-> top[i].id,
                               name |-> top[i].name,
                               recommendation |-> top[i].recommendations[1],
                               impact |-> "Critical"]]]

\* args?.clusterId is truthy: present and not the empty string
Truthy(arg) == arg.defined /\ arg.value # <<>>

\* getRecommendations, lines 339-393, which rethrows nothing: the outcome is
\* a payload or the message of the Error it throws
RecommendationsOutcome(cs, clusterId) ==
    IF Truthy(clusterId)
    THEN LET cluster == FindCluster(cs, clusterId.value)
         IN IF cluster.defined
            THEN [threw |-> FALSE,
                  value |-> ClusterRecommendations(clusterId.value, cluster.value)]
            ELSE [threw |-> TRUE,
                  value |-> msgCluster \o clusterId.value \o msgNotFound]
    ELSE [threw |-> FALSE, value |-> GlobalRecommendations(cs)]

\* the try / catch of lines 187-211 around a tool whose outcome is o, with
\* the catch clause left out: the Error leaves the handler and the request
\* gets no tool result
GuardedNoCatch(o) ==
    IF o.threw THEN [isError |-> FALSE, text |-> <<>>, payload |-> <<>>]
    ELSE Success(o.value)

\* the try / catch of lines 187-211 around a tool whose outcome is o
Guarded(o) == IF o.threw THEN Failure(o.value) ELSE Success(o.value)

\* the filters of lines 243-251 with > written for >= in line 250
FilterClustersAboveMinimum(cs, severity, resolved, minSize) ==
    LET bySeverity ==
            IF severity.defined /\ severity.value # ""
            THEN SelectSeq(cs, LAMBDA c : c.severity = severity.value) ELSE cs
        byResolved ==
            IF resolved.defined
            THEN SelectSeq(bySeverity, LAMBDA c : c.resolved = resolved.value)
            ELSE bySeverity
    IN IF minSize.defined /\ minSize.value # 0
       THEN SelectSeq(byResolved, LAMBDA c : c.failureCount > minSize.value)
       ELSE byResolved

\* the filters of lines 243-251
FilterClusters(cs, severity, resolved, minSize) ==
    LET bySeverity ==
            IF severity.defined /\ severity.value # ""
            THEN SelectSeq(cs, LAMBDA c : c.severity = severity.value) ELSE cs
        byResolved ==
            IF resolved.defined
            THEN SelectSeq(bySeverity, LAMBDA c : c.resolved = resolved.value)
            ELSE bySeverity
    IN IF minSize.defined /\ minSize.value # 0
       THEN SelectSeq(byResolved, LAMBDA c : c.failureCount >= minSize.value)
       ELSE byResolved

\* the fallback of args?.limit || 100, line 276
DefaultLimit == 100

\* lines 269-277
SelectLogs(ls, skillName, limit) ==
    LET bySkill ==
            IF Truthy(skillName)
            THEN SelectSeq(ls, LAMBDA l : l.skillName = skillName.value) ELSE ls
        n == IF limit.defined /\ limit.value # 0 THEN limit.value ELSE DefaultLimit
    IN Slice(bySkill, 0, n)

RECURSIVE SumFailureCounts(_)
SumFailureCounts(cs) ==
    IF Len(cs) = 0 THEN 0
    ELSE cs[1].failureCount + SumFailureCounts(Tail(cs))

\* the object of lines 300-322 without its fixed aiInsights
TrendReport(cs, timeRange) ==
    [totalClusters |-> Len(cs),
     increasingTrends |-> Len(SelectSeq(cs, LAMBDA c : c.trend = "increasing")),
     decreasingTrends |-> Len(SelectSeq(cs, LAMBDA c : c.trend = "decreasing")),
     stableTrends |-> Len(SelectSeq(cs, LAMBDA c : c.trend = "stable")),
     byRootCause |->
        [cat \in {cs[j].rootCause.category : j \in 1..Len(cs)} |->
            SumFailureCounts(SelectSeq(cs, LAMBDA c : c.rootCause.category = cat))],
     bySeverity |->
        [sev \in {cs[j].severity : j \in 1..Len(cs)} |->
            Len(SelectSeq(cs, LAMBDA c : c.severity = sev))],
     timeRange |-> IF timeRange.defined /\ timeRange.value # ""
                   THEN timeRange.value ELSE "7d"]

\* the server after its constructor (lines 62-77) and a client after its
\* constructor (lines 50-53); processFailureClusters itself is not running
InitService ==
    /\ mockData \in MockSnapshots
    /\ request = NoRequest
    /\ toolResult = NoResult
    /\ isConnected = FALSE
    /\ connectionStatus = "disconnected"
    /\ clientCall = NoCall
    /\ logs = <<>>
    /\ minClusterSize = DefaultMinClusterSize
    /\ errorGroups = <<>>
    /\ clusters = <<>>
    /\ result = <<>>
    /\ pc = "idle"
    /\ other = NoInvocation

\* getFailureAnalytics with if (args?.refresh !== undefined) in line 217
GetFailureAnalyticsRefreshingWhenGiven(refresh, generated) ==
    /\ request' = [name |-> toolGetFailureAnalytics,
                   args |-> [refresh |-> refresh]]
    /\ IF refresh.defined
       THEN mockData' \in generated
       ELSE mockData' = mockData
    /\ toolResult' = Success(mockData')
    /\ UNCHANGED <<engineVars, other, clientVars>>

\* getFailureAnalytics, lines 216-237, reached through CallTool (184-213);
\* generated is what refreshMockData can store
GetFailureAnalytics(refresh, generated) ==
    /\ request' = [name |-> toolGetFailureAnalytics,
                   args |-> [refresh |-> refresh]]
    /\ IF refresh.defined /\ refresh.value
       THEN mockData' \in generated
       ELSE mockData' = mockData
    /\ toolResult' = Success(mockData')
    /\ UNCHANGED <<engineVars, other, clientVars>>

\* CallTool with name get_failure_analytics
CallGetFailureAnalytics ==
    \E refresh \in {Absent, Given(TRUE), Given(FALSE)} :
        GetFailureAnalytics(refresh, MockSnapshots)

\* getClusters, lines 239-266, reached through CallTool (184-213)
GetClusters(severity, resolved, minSize) ==
    LET found == FilterClusters(mockData.clusters, severity, resolved, minSize)
    IN /\ request' = [name |-> toolGetClusters,
                      args |-> [severity |-> severity, resolved |-> resolved,
                                minClusterSize |-> minSize]]
       /\ toolResult' = Success([data |-> found, count |-> Len(found)])
       /\ UNCHANGED <<mockData, engineVars, other, clientVars>>

\* CallTool with name get_clusters
CallGetClusters ==
    \E severity \in {Absent, Given("low")},
       resolved \in {Absent, Given(TRUE)},
       minSize \in {Absent, Given(MaxMockGroup)} :
        GetClusters(severity, resolved, minSize)

\* getFailureLogs, lines 268-293, reached through CallTool (184-213)
GetFailureLogs(skillName, limit) ==
    LET found == SelectLogs(mockData.failureLogs, skillName, limit)
    IN /\ request' = [name |-> toolGetFailureLogs,
                      args |-> [skillName |-> skillName, limit |-> limit]]
       /\ toolResult' = Success([data |-> found, count |-> Len(found),
                                 total |-> Len(mockData.failureLogs)])
       /\ UNCHANGED <<mockData, engineVars, other, clientVars>>

\* CallTool with name get_failure_logs
CallGetFailureLogs ==
    \E skillName \in {Absent, Given(skUserLookup)},
       limit \in {Absent, Given(1)} :
        GetFailureLogs(skillName, limit)

\* CallTool with name analyze_trends: lines 184-213 and 295-337
CallAnalyzeTrends ==
    \E timeRange \in {Absent, Given("24h")} :
        /\ request' = [name |-> toolAnalyzeTrends,
                       args |-> [timeRange |-> timeRange]]
        /\ toolResult' = Success(TrendReport(mockData.clusters, timeRange))
        /\ UNCHANGED <<mockData, engineVars, other, clientVars>>

\* the cluster ids a caller may ask for: those of the two keys of the mock
\* events, one that no snapshot holds, the empty string, or none
ClusterIdArgs ==
    {Absent, Given(<<>>), Given(idMissing)}
    \cup {Given(idPrefix \o GroupKey(MockContent(p[1], p[2]))) :
            p \in {<<skUserLookup, exApiTimeout30>>, <<skDeviceQuery, exSkillConfig>>}}

\* CallTool with name get_recommendations: lines 184-213 and 339-393
CallGetRecommendations ==
    \E clusterId \in ClusterIdArgs :
        /\ request' = [name |-> toolGetRecommendations,
                       args |-> [clusterId |-> clusterId]]
        /\ toolResult' = Guarded(RecommendationsOutcome(mockData.clusters, clusterId))
        /\ UNCHANGED <<mockData, engineVars, other, clientVars>>

\* CallTool with a name that is no tool: the default case of line 199
CallUnknownTool ==
    /\ request' = [name |-> toolDeleteCluster, args |-> <<>>]
    /\ toolResult' = Guarded([threw |-> TRUE,
                              value |-> msgUnknownTool \o toolDeleteCluster])
    /\ UNCHANGED <<mockData, engineVars, other, clientVars>>

\* the cluster ids passed to the client: none, one that no generated data
\* holds, and that of the first key of the mock events
ClientClusterIdArgs ==
    {Absent, Given(idMissing),
     Given(idPrefix \o GroupKey(MockContent(skUserLookup, exApiTimeout30)))}

\* the timer callback of simulateConnection without line 57
ClientConnectStatusOnly ==
    /\ ~isConnected
    /\ isConnected' = isConnected
    /\ connectionStatus' = "connected"
    /\ UNCHANGED <<clientCall, engineVars, other, serverVars>>

\* the timer callback of simulateConnection, lines 56-60
ClientConnect ==
    /\ ~isConnected
    /\ isConnected' = TRUE
    /\ connectionStatus' = "connected"
    /\ UNCHANGED <<clientCall, engineVars, other, serverVars>>

\* MCPClient.getRecommendations, lines 112-121, with callMCPTool (123-138)
\* and the get_recommendations case of getSimulatedData (220-259), which
\* generates its own events for every call
ClientGetRecommendations ==
    \E clusterId \in ClientClusterIdArgs :
        /\ IF ~isConnected
           THEN clientCall' = [method |-> "getRecommendations",
                               clusterId |-> clusterId, connected |-> FALSE,
                               clusters |-> <<>>,
                               status |-> "rejected", value |-> msgNotConnected]
           ELSE \E cs \in MockClusterings :
                  LET o == RecommendationsOutcome(cs, clusterId)
                  IN clientCall' =
                        [method |-> "getRecommendations",
                         clusterId |-> clusterId,
                         connected |-> TRUE,
                         clusters |-> [j \in 1..Len(cs) |-> cs[j].id],
                         status |-> IF o.threw THEN "rejected" ELSE "resolved",
                         value |-> o.value]
        /\ UNCHANGED <<isConnected, connectionStatus, engineVars, other, serverVars>>

NextService ==
    \/ CallGetFailureAnalytics
    \/ CallGetClusters
    \/ CallGetFailureLogs
    \/ CallAnalyzeTrends
    \/ CallGetRecommendations
    \/ CallUnknownTool
    \/ ClientConnect
    \/ ClientGetRecommendations

SpecService == InitService /\ [][NextService]_vars


(***************************************************************************)
(* The server alone, with snapshots that hold clusters of several          *)
(* severities and groups below the default threshold, and requests that    *)
(* cover the argument values the handlers tell apart.                      *)
(***************************************************************************)
\* a group below the default threshold, a medium one and a critical one
MinorGroup == 1
MediumGroup == 11
CriticalGroup == 51

ToolLists ==
    {Repeat(MockContent(skUserLookup, exApiTimeout30), a, 0)
       \o Repeat(MockContent(skDeviceQuery, exSkillConfig), b, a) :
          a \in {0, MinorGroup, MediumGroup, CriticalGroup},
          b \in {0, MaxMockGroup, CriticalGroup}}

ToolSnapshots == {Snapshot(ls) : ls \in ToolLists}

\* the server after its constructor (lines 62-77)
InitTools ==
    /\ mockData \in ToolSnapshots
    /\ request = NoRequest
    /\ toolResult = NoResult
    /\ isConnected = FALSE
    /\ connectionStatus = "disconnected"
    /\ clientCall = NoCall
    /\ logs = <<>>
    /\ minClusterSize = DefaultMinClusterSize
    /\ errorGroups = <<>>
    /\ clusters = <<>>
    /\ result = <<>>
    /\ pc = "idle"
    /\ other = NoInvocation

SeverityArgs == {Absent, Given("low"), Given("medium"), Given("critical")}
ResolvedArgs == {Absent, Given(TRUE), Given(FALSE)}
MinClusterSizeArgs ==
    {Absent, Given(0), Given(MinorGroup), Given(MinorGroup + 1),
     Given(DefaultMinClusterSize), Given(MediumGroup + 1)}
SkillNameArgs == {Absent, Given(<<>>), Given(skUserLookup)}
MaxLimit == 2
LimitArgs == {Absent} \cup {Given(n) : n \in 0..MaxLimit}

ToolGetFailureAnalytics ==
    \E refresh \in {Absent, Given(TRUE), Given(FALSE)} :
        GetFailureAnalytics(refresh, ToolSnapshots)

ToolGetClusters ==
    \E severity \in SeverityArgs, resolved \in ResolvedArgs,
       minSize \in MinClusterSizeArgs :
        GetClusters(severity, resolved, minSize)

ToolGetFailureLogs ==
    \E skillName \in SkillNameArgs, limit \in LimitArgs :
        GetFailureLogs(skillName, limit)

NextTools ==
    \/ ToolGetFailureAnalytics
    \/ ToolGetClusters
    \/ ToolGetFailureLogs
    \/ CallAnalyzeTrends
    \/ CallGetRecommendations
    \/ CallUnknownTool

SpecTools == InitTools /\ [][NextTools]_vars


(***************************************************************************)
(* The client alone: its timer callback and its five data methods.  Each   *)
(* method tests isConnected when it is invoked, and getSimulatedData       *)
(* generates its own events for every call.                                *)
(***************************************************************************)
\* the client after its constructor (lines 47-53); there is no server, and
\* the generator that getSimulatedData imports has events to yield
InitClient ==
    /\ Cardinality(MockLists) >= 1
    /\ Cardinality(MockSnapshots) >= 1
    /\ Cardinality(MockClusterings) >= 1
    /\ isConnected = FALSE
    /\ connectionStatus = "disconnected"
    /\ clientCall = NoCall
    /\ mockData = NoSnapshot
    /\ request = NoRequest
    /\ toolResult = NoResult
    /\ logs = <<>>
    /\ minClusterSize = DefaultMinClusterSize
    /\ errorGroups = <<>>
    /\ clusters = <<>>
    /\ result = <<>>
    /\ pc = "idle"
    /\ other = NoInvocation

\* the guard that opens every data method (lines 64-66, 81-83, 94-96,
\* 104-106, 114-116) around the data the call would resolve with
ClientCall(method, args, outcomes) ==
    /\ IF ~isConnected
       THEN clientCall' = [method |-> method, args |-> args,
                           status |-> "rejected", value |-> msgNotConnected]
       ELSE \E data \in outcomes :
              clientCall' = [method |-> method, args |-> args,
                             status |-> "resolved", value |-> data]
    /\ UNCHANGED <<isConnected, connectionStatus, engineVars, other, serverVars>>

\* MCPClient.getFailureAnalytics, lines 63-75, with the get_failure_analytics
\* case of getSimulatedData (147-159)
ClientGetFailureAnalytics ==
    \E refresh \in {Absent, Given(TRUE)} :
        ClientCall("getFailureAnalytics",
                   [refresh |-> IF refresh.defined THEN refresh.value ELSE FALSE],
                   MockSnapshots)

\* MCPClient.getClusters, lines 77-88, with the get_clusters case (161-177)
ClientGetClusters ==
    \E severity \in {Absent, Given("low")},
       resolved \in {Absent, Given(TRUE), Given(FALSE)},
       minSize \in {Absent, Given(MaxMockGroup)} :
        ClientCall("getClusters",
                   [severity |-> severity, resolved |-> resolved,
                    minClusterSize |-> minSize],
                   {FilterClusters(cs, severity, resolved, minSize) :
                        cs \in MockClusterings})

\* MCPClient.getFailureLogs, lines 90-101, with the get_failure_logs case
\* (179-188)
ClientGetFailureLogs ==
    \E skillName \in {Absent, Given(skUserLookup)},
       limit \in {Absent, Given(0), Given(1)} :
        ClientCall("getFailureLogs",
                   [skillName |-> skillName, limit |-> limit],
                   {SelectLogs(ls, skillName, limit) : ls \in MockLists})

\* MCPClient.analyzeTrends, lines 103-111, with the analyze_trends case
\* (190-218)
ClientAnalyzeTrends ==
    \E timeRange \in {Absent, Given("24h")} :
        LET passed == IF timeRange.defined THEN timeRange ELSE Given("7d")
        IN ClientCall("analyzeTrends", [timeRange |-> passed],
                      {TrendReport(cs, passed) : cs \in MockClusterings})

NextClient ==
    \/ ClientConnect
    \/ ClientGetFailureAnalytics
    \/ ClientGetClusters
    \/ ClientGetFailureLogs
    \/ ClientAnalyzeTrends
    \/ ClientGetRecommendations

SpecClient == InitClient /\ [][NextClient]_vars

(***************************************************************************)
(* Properties of the returned clusters.                                    *)
(***************************************************************************)
Done == pc = "done"

ResultIndexes == 1..Len(result)

\* the grouping keys present in the input
InputKeys == {GroupKey(logs[i]) : i \in 1..Len(logs)}

\* the positions of the input events of one key, and their number
IndexesOf(key) == {i \in 1..Len(logs) : GroupKey(logs[i]) = key}
CountOf(key) == Cardinality(IndexesOf(key))
FirstIndexOf(key) == CHOOSE i \in IndexesOf(key) : \A k \in IndexesOf(key) : i <= k

\* the grouping key a cluster was built for: its id without "cluster_"
ClusterKey(c) == SubSeq(c.id, Len(idPrefix) + 1, Len(c.id))

Members(c) == {c.failureLogs[k] : k \in 1..Len(c.failureLogs)}

RECURSIVE SumFailureCount(_)
SumFailureCount(cs) ==
    IF Len(cs) = 0 THEN 0 ELSE cs[1].failureCount + SumFailureCount(Tail(cs))

\* C1: a grouping key of the input has a cluster in the output (exactly one)
\* if and only if at least minClusterSize input events have that key; a key
\* below the threshold has none, and no cluster belongs to a key that is not
\* in the input.
C1_ThresholdIff ==
    Done =>
        /\ \A key \in InputKeys :
              Cardinality({j \in ResultIndexes : ClusterKey(result[j]) = key})
                = IF CountOf(key) >= minClusterSize THEN 1 ELSE 0
        /\ \A j \in ResultIndexes :
              /\ ClusterKey(result[j]) \in InputKeys
              /\ result[j].id = idPrefix \o ClusterKey(result[j])

\* a group exactly at the threshold got its cluster while a smaller group
\* of the same input got none
C1_Witness ==
    /\ Done
    /\ minClusterSize >= 2
    /\ \E key \in InputKeys :
          /\ CountOf(key) = minClusterSize
          /\ \E j \in ResultIndexes : ClusterKey(result[j]) = key
    /\ \E key \in InputKeys :
          /\ CountOf(key) = minClusterSize - 1
          /\ \A j \in ResultIndexes : ClusterKey(result[j]) # key

\* C2: the grouping key partitions the input: every input event is a member
\* of at most one cluster and occurs there once, and the members of a
\* cluster are exactly the input events that have the cluster's key.
C2_Partition ==
    Done =>
        /\ \A i \in 1..Len(logs) :
              Cardinality({<<j, k>> \in ResultIndexes \X (1..Len(logs)) :
                              /\ k <= Len(result[j].failureLogs)
                              /\ result[j].failureLogs[k] = logs[i]}) <= 1
        /\ \A j \in ResultIndexes :
              /\ Members(result[j]) = {logs[i] : i \in IndexesOf(ClusterKey(result[j]))}
              /\ Len(result[j].failureLogs) = CountOf(ClusterKey(result[j]))

\* a cluster of two next to an event of another key that is in no cluster
C2_Witness ==
    /\ Done
    /\ \E j \in ResultIndexes : Len(result[j].failureLogs) >= 2
    /\ \E i \in 1..Len(logs) :
          \A j \in ResultIndexes : logs[i] \notin Members(result[j])
    /\ GroupKey(logs[1]) # GroupKey(logs[2])

\* C3: the result is sorted descending by failureCount, and clusters of
\* equal failureCount stand in the order in which their keys were first
\* seen in the input.
C3_SortedStable ==
    Done =>
        \A j \in ResultIndexes : j < Len(result) =>
            \/ result[j].failureCount > result[j + 1].failureCount
            \/ /\ result[j].failureCount = result[j + 1].failureCount
               /\ FirstIndexOf(ClusterKey(result[j]))
                    < FirstIndexOf(ClusterKey(result[j + 1]))

\* the sort moved a larger cluster in front of one whose key was seen first
C3_Witness ==
    /\ Done
    /\ \E j \in ResultIndexes :
          /\ j < Len(result)
          /\ result[j].failureCount > result[j + 1].failureCount
          /\ FirstIndexOf(ClusterKey(result[j]))
               > FirstIndexOf(ClusterKey(result[j + 1]))

\* C4: in every cluster failureCount is the length of failureLogs and the
\* skillName of every member is an element of affectedSkills.
C4_CountAndSkills ==
    Done =>
        \A j \in ResultIndexes :
            /\ result[j].failureCount = Len(result[j].failureLogs)
            /\ \A m \in Members(result[j]) :
                  \E k \in 1..Len(result[j].affectedSkills) :
                      result[j].affectedSkills[k] = m.skillName

\* a cluster whose members have two different skills
C4_Witness ==
    /\ Done
    /\ \E j \in ResultIndexes :
          /\ result[j].failureCount >= 2
          /\ \E m1, m2 \in Members(result[j]) : m1.skillName # m2.skillName

\* C5: in every cluster firstSeen <= lastSeen, firstSeen is the least and
\* lastSeen the greatest timestamp of the members, and both are timestamps
\* of members.
C5_FirstLastSeen ==
    Done =>
        \A j \in ResultIndexes :
            LET c == result[j]
            IN /\ c.firstSeen <= c.lastSeen
               /\ \A m \in Members(c) :
                     c.firstSeen <= m.timestamp /\ m.timestamp <= c.lastSeen
               /\ \E m \in Members(c) : m.timestamp = c.firstSeen
               /\ \E m \in Members(c) : m.timestamp = c.lastSeen

\* a cluster whose events arrived with descending timestamps
C5_Witness ==
    /\ Done
    /\ \E j \in ResultIndexes :
          /\ result[j].firstSeen < result[j].lastSeen
          /\ \E i1, i2 \in IndexesOf(ClusterKey(result[j])) :
                i1 < i2 /\ logs[i1].timestamp > logs[i2].timestamp
          /\ logs[FirstIndexOf(ClusterKey(result[j]))].timestamp # result[j].firstSeen

\* C6: the failureCounts of the output sum to at most the number of input
\* events, and to exactly that number precisely when every key of the input
\* has at least minClusterSize events.
C6_SumBound ==
    Done =>
        /\ SumFailureCount(result) <= Len(logs)
        /\ (SumFailureCount(result) = Len(logs))
              <=> (\A key \in InputKeys : CountOf(key) >= minClusterSize)

\* one group was reported and another one dropped
C6_Witness ==
    /\ Done
    /\ Len(result) >= 1
    /\ SumFailureCount(result) < Len(logs)

\* C7: severity is a step function of failureCount with exclusive lower
\* bounds: more than 50 critical, 21..50 high, 11..20 medium, at most 10 low.
C7_SeveritySteps ==
    Done =>
        \A j \in ResultIndexes :
            LET n == result[j].failureCount
                sev == result[j].severity
            IN /\ sev = "critical" <=> n > 50
               /\ sev = "high" <=> n \in 21..50
               /\ sev = "medium" <=> n \in 11..20
               /\ sev = "low" <=> n <= 10

\* a cluster of exactly 51 events, the smallest critical one
C7_Witness ==
    /\ Done
    /\ \E j \in ResultIndexes :
          result[j].failureCount = 51 /\ result[j].severity = "critical"

\* the character c folded to lower case
LowerChar(c) == IF c \in DOMAIN LowerOf THEN LowerOf[c] ELSE c

\* the text e contains the keyword kw when letter case is ignored
Mentions(e, kw) ==
    \E i \in 0..(Len(e) - Len(kw)) :
        \A k \in 1..Len(kw) : LowerChar(e[i + k]) = kw[k]

\* some member of cluster c has an exception that contains a keyword of kws
SomeMember(c, kws) ==
    \E m \in Members(c) : \E kw \in kws : Mentions(m.exception, kw)

GroundingWords == {kwContext, kwTenant}
TimeoutWords == {kwTimeout, kwNetwork}
AuthWords == {kwPermission, kwUnauthorized}
InputWords == {kwParameter, kwInput}

\* C8: one root cause per cluster, by a case-insensitive scan over the
\* exceptions of all members with priority grounding, timeout, auth, input,
\* api: a single member that contains "context" or "tenant" makes the cluster
\* grounding whatever the others contain, every other category is assigned
\* only when no higher one matches any member, and api only when no keyword
\* matches any member.
C8_RootCausePriority ==
    Done =>
        \A j \in ResultIndexes :
            LET c == result[j]
                cat == c.rootCause.category
            IN /\ cat \in {catGrounding, catTimeout, catAuth, catInput, catApi}
               /\ cat = catGrounding <=> SomeMember(c, GroundingWords)
               /\ cat = catTimeout =>
                     /\ ~SomeMember(c, GroundingWords)
                     /\ SomeMember(c, TimeoutWords)
               /\ cat = catAuth =>
                     /\ ~SomeMember(c, GroundingWords \cup TimeoutWords)
                     /\ SomeMember(c, AuthWords)
               /\ cat = catInput =>
                     /\ ~SomeMember(c, GroundingWords \cup TimeoutWords \cup AuthWords)
                     /\ SomeMember(c, InputWords)
               /\ cat = catApi =>
                     ~SomeMember(c, GroundingWords \cup TimeoutWords
                                      \cup AuthWords \cup InputWords)

\* a grounding cluster in which one member alone mentions the tenant or the
\* context and another member mentions a timeout
C8_Witness ==
    /\ Done
    /\ \E j \in ResultIndexes :
          /\ result[j].rootCause.category = catGrounding
          /\ Cardinality({m \in Members(result[j]) :
                \E kw \in GroundingWords : Mentions(m.exception, kw)}) = 1
          /\ \E m \in Members(result[j]) :
                /\ \A kw \in GroundingWords : ~Mentions(m.exception, kw)
                /\ Mentions(m.exception, kwTimeout)

\* C9 as stated: without a grounding or timeout keyword, a member that
\* contains "permission", "unauthorized" or "authentication" makes the
\* cluster auth with confidence 0.88.
C9_AuthWithAuthentication ==
    Done =>
        \A j \in ResultIndexes :
            (/\ ~SomeMember(result[j], GroundingWords \cup TimeoutWords)
             /\ SomeMember(result[j], AuthWords \cup {kwAuthentication}))
            => /\ result[j].rootCause.category = catAuth
               /\ result[j].rootCause.confidence = 88

\* C9 amended: without a grounding or timeout keyword, a member that
\* contains "permission" or "unauthorized" makes the cluster auth with
\* confidence 0.88; "authentication" is not a keyword, and a cluster whose
\* only such word is "authentication" falls through to api.
C9_AuthKeywords ==
    Done =>
        \A j \in ResultIndexes :
            /\ (/\ ~SomeMember(result[j], GroundingWords \cup TimeoutWords)
                /\ SomeMember(result[j], AuthWords))
               => /\ result[j].rootCause.category = catAuth
                  /\ result[j].rootCause.confidence = 88
            /\ (/\ ~SomeMember(result[j], GroundingWords \cup TimeoutWords
                                            \cup AuthWords \cup InputWords)
                /\ SomeMember(result[j], {kwAuthentication}))
               => /\ result[j].rootCause.category = catApi
                  /\ result[j].rootCause.confidence = 70

\* an auth cluster in which a member also carries an input keyword
C9_Witness ==
    /\ Done
    /\ \E j \in ResultIndexes :
          /\ result[j].rootCause.category = catAuth
          /\ result[j].rootCause.confidence = 88
          /\ SomeMember(result[j], {kwPermission})
          /\ SomeMember(result[j], InputWords)

\* C10 as stated: without a grounding, timeout or auth keyword, a member
\* that contains "parameter", "input" or "invalid" makes the cluster input
\* with confidence 0.82.
C10_InputWithInvalid ==
    Done =>
        \A j \in ResultIndexes :
            (/\ ~SomeMember(result[j], GroundingWords \cup TimeoutWords
                                         \cup AuthWords \cup {kwAuthentication})
             /\ SomeMember(result[j], InputWords \cup {kwInvalid}))
            => /\ result[j].rootCause.category = catInput
               /\ result[j].rootCause.confidence = 82

\* C10 amended: without a grounding, timeout or auth keyword, a member that
\* contains "parameter" or "input" makes the cluster input with confidence
\* 0.82; "invalid" is not a keyword, and a cluster whose only such word is
\* "invalid" falls through to api.
C10_InputKeywords ==
    Done =>
        \A j \in ResultIndexes :
            /\ (/\ ~SomeMember(result[j], GroundingWords \cup TimeoutWords
                                            \cup AuthWords)
                /\ SomeMember(result[j], InputWords))
               => /\ result[j].rootCause.category = catInput
                  /\ result[j].rootCause.confidence = 82
            /\ (/\ ~SomeMember(result[j], GroundingWords \cup TimeoutWords
                                            \cup AuthWords \cup InputWords)
                /\ SomeMember(result[j], {kwInvalid}))
               => /\ result[j].rootCause.category = catApi
                  /\ result[j].rootCause.confidence = 70

\* an input cluster whose only keyword is written with a capital letter
C10_Witness ==
    /\ Done
    /\ \E j \in ResultIndexes :
          /\ result[j].rootCause.category = catInput
          /\ result[j].rootCause.confidence = 82
          /\ \A m \in Members(result[j]) : m.exception = exBadParameter

(***************************************************************************)
(* The grouping key and whitespace.                                        *)
(***************************************************************************)
IsWhitespace(ch) == ch \in {" ", "\t"}

\* the words of s: its maximal runs of characters that are not whitespace
RECURSIVE WordsFrom(_, _, _, _)
WordsFrom(s, i, cur, acc) ==
    IF i > Len(s)
    THEN IF Len(cur) > 0 THEN Append(acc, cur) ELSE acc
    ELSE IF IsWhitespace(s[i])
         THEN WordsFrom(s, i + 1, <<>>,
                        IF Len(cur) > 0 THEN Append(acc, cur) ELSE acc)
         ELSE WordsFrom(s, i + 1, Append(cur, s[i]), acc)

Words(s) == WordsFrom(s, 1, <<>>, <<>>)

FirstThreeWords(s) == Slice(Words(s), 0, 3)

GroupIndexesOf(i) ==
    {g \in 1..Len(errorGroups) :
        \E m \in 1..Len(errorGroups[g].logs) :
            errorGroups[g].logs[m].evaluationId = logs[i].evaluationId}

\* C11: every event lies in the group whose key is its skillName, "_" and
\* its first three whitespace-separated words joined by "_" (all words when
\* there are fewer), so two events of one skill whose exceptions have the
\* same first three words lie in the same group whatever whitespace
\* separates the words.
C11_KeyByWords ==
    pc # "start" =>
        /\ \A i \in 1..Len(logs) :
              \A g \in GroupIndexesOf(i) :
                  errorGroups[g].key =
                      logs[i].skillName \o <<"_">>
                        \o Join(FirstThreeWords(logs[i].exception), <<"_">>)
        /\ \A i, j \in 1..Len(logs) :
              (/\ logs[i].skillName = logs[j].skillName
               /\ FirstThreeWords(logs[i].exception)
                    = FirstThreeWords(logs[j].exception))
                  => GroupIndexesOf(i) = GroupIndexesOf(j)

(***************************************************************************)
(* Trend.                                                                  *)
(***************************************************************************)
\* the label for a first half of floor(n/2) and a second half of the rest
TrendOfSize(n) ==
    LET firstHalf == n \div 2
        secondHalf == n - firstHalf
    IN IF 10 * secondHalf > 12 * firstHalf THEN "increasing"
       ELSE IF 10 * secondHalf < 8 * firstHalf THEN "decreasing"
       ELSE "stable"

\* C12: the trend of a cluster of n members is increasing if the second
\* half (the last ceil(n/2) of the time-sorted members) has more than 1.2
\* times the floor(n/2) members of the first half, else decreasing if it has
\* fewer than 0.8 times as many, else stable; a cluster with an even number
\* of members is stable.
C12_TrendBySplit ==
    Done =>
        \A j \in ResultIndexes :
            /\ result[j].trend = TrendOfSize(result[j].failureCount)
            /\ result[j].failureCount % 2 = 0 => result[j].trend = "stable"

\* ten events sharing one timestamp form a stable cluster
C12_Witness ==
    /\ Done
    /\ \E j \in ResultIndexes :
          /\ result[j].failureCount = 10
          /\ \A m \in Members(result[j]) : m.timestamp = 1
          /\ result[j].trend = "stable"

(***************************************************************************)
(* The caller's array.                                                     *)
(***************************************************************************)
\* the events of one key in the order of the caller's array
ScanMembers(key) == SelectSeq(logs, LAMBDA l : GroupKey(l) = key)

\* C14: no step of processFailureClusters changes the caller's events
\* array: it holds the same events, with the same fields, in the same order
\* throughout and after the call; the sort of determineTrend reorders the
\* group's own array only.
C14_InputUntouched == [][logs' = logs]_vars

\* a returned cluster whose member array was reordered by the sort, beside
\* a caller's array that still has the later event first
C14_Witness ==
    /\ Done
    /\ \E j \in ResultIndexes :
          /\ result[j].failureLogs # ScanMembers(ClusterKey(result[j]))
          /\ result[j].failureLogs
               = SortByTimestamp(ScanMembers(ClusterKey(result[j])))
    /\ \E i \in 1..Len(logs) :
          i < Len(logs) /\ logs[i].timestamp > logs[i + 1].timestamp

(***************************************************************************)
(* Totality.                                                               *)
(***************************************************************************)
\* C15: processFailureClusters raises for no input: no group of the Map is
\* empty, so createClusterFromLogs is never entered with an empty group
\* whatever minClusterSize is (zero and negative values included), events
\* without contextMissing are processed like the others, and the result for
\* an empty events array is the empty array.
C15_Total ==
    /\ pc # "threw"
    /\ \A g \in 1..Len(errorGroups) : Len(errorGroups[g].logs) >= 1
    /\ (Done /\ Len(logs) = 0) => result = <<>>
    /\ Done =>
          \A i \in 1..Len(logs) :
              (minClusterSize <= 1 /\ ~logs[i].contextMissing.defined)
                  => \E j \in ResultIndexes : logs[i] \in Members(result[j])

\* a cluster returned under a threshold below 1 for events that carry no
\* contextMissing field
C15_Witness ==
    /\ Done
    /\ minClusterSize <= 0
    /\ Len(result) >= 1
    /\ \E j \in ResultIndexes :
          \A m \in Members(result[j]) : ~m.contextMissing.defined

(***************************************************************************)
(* Interleaved invocations.                                                *)
(***************************************************************************)
\* C16: when the steps of two invocations interleave in any order, on one
\* array or on two, each invocation returns what processFailureClusters
\* returns for its own arguments when it runs alone.
C16_NoInterference ==
    /\ pc # "threw" /\ other.pc # "threw"
    /\ Done => result = ProcessFailureClusters(logs, minClusterSize)
    /\ other.pc = "done"
          => other.result = ProcessFailureClusters(OtherLogs, other.minClusterSize)

\* the second invocation ran from start to end on the first caller's array
\* while the first one stood between its grouping and its materializing
\* step; the sort reordered the arrays of the second one's Map and left
\* those of the first one's Map as they were
C16_Witness ==
    /\ other.shared
    /\ other.pc = "done"
    /\ Len(other.result) >= 1
    /\ pc = "grouped"
    /\ errorGroups = GroupLogs(logs)
    /\ other.errorGroups # errorGroups

(***************************************************************************)
(* Tags.                                                                   *)
(***************************************************************************)
Lowered(s) == [i \in 1..Len(s) |-> LowerChar(s[i])]

MemberSkills(c) == {m.skillName : m \in Members(c)}

\* C17: the tags of a cluster are its rootCause.category, then the
\* lower-cased distinct skill names of its members, then "high-volume"
\* exactly when failureCount > 50, then "context-missing" exactly when some
\* member has a non-empty contextMissing list; members whose contextMissing
\* is absent or empty do not cause the tag.
C17_Tags ==
    Done =>
        \A j \in ResultIndexes :
            LET c == result[j]
                t == c.tags
                k == Cardinality(MemberSkills(c))
                hv == c.failureCount > 50
                cm == \E m \in Members(c) :
                          /\ m.contextMissing.defined
                          /\ m.contextMissing.items # <<>>
            IN /\ Len(t) = 1 + k + (IF hv THEN 1 ELSE 0) + (IF cm THEN 1 ELSE 0)
               /\ t[1] = c.rootCause.category
               /\ {t[i] : i \in 2..(k + 1)} = {Lowered(s) : s \in MemberSkills(c)}
               /\ hv => t[k + 2] = tagHighVolume
               /\ cm => t[Len(t)] = tagContextMissing

\* a cluster of 51 events of which only the last one names missing context:
\* category, skill, high-volume, context-missing
C17_Witness ==
    /\ Done
    /\ \E j \in ResultIndexes :
          /\ result[j].failureCount = 51
          /\ Cardinality({m \in Members(result[j]) :
                             m.contextMissing.items # <<>>}) = 1
          /\ \E m \in Members(result[j]) : ~m.contextMissing.defined
          /\ result[j].tags = <<catApi, ToLowerCase(skUser), tagHighVolume,
                                tagContextMissing>>

(***************************************************************************)
(* Recommendations.                                                        *)
(***************************************************************************)
FixedRecommendations(category) ==
    CASE category = catGrounding -> <<recGrounding1, recGrounding2, recGrounding3>>
      [] category = catTimeout -> <<recTimeout1, recTimeout2, recTimeout3>>
      [] category = catAuth -> <<recAuth1, recAuth2, recAuth3>>
      [] category = catApi -> <<recApi1, recApi2, recApi3>>

\* the skill of the first event of the cluster's key in the caller's array
FirstScannedSkill(c) == logs[FirstIndexOf(ClusterKey(c))].skillName

\* C18: recommendations has exactly three items; for a category other than
\* input they are the fixed items of the category, so two clusters of one
\* such category have the same list; for input the first item names the
\* skill of the first event of the group in scan order and the other two
\* are fixed.
C18_Recommendations ==
    Done =>
        \A j \in ResultIndexes :
            LET c == result[j]
            IN /\ Len(c.recommendations) = 3
               /\ c.rootCause.category # catInput
                     => c.recommendations = FixedRecommendations(c.rootCause.category)
               /\ c.rootCause.category = catInput
                     => c.recommendations =
                          <<recInput1a \o FirstScannedSkill(c) \o recInput1b,
                            recInput2, recInput3>>
               /\ \A j2 \in ResultIndexes :
                     (/\ result[j2].rootCause.category = c.rootCause.category
                      /\ c.rootCause.category # catInput)
                        => result[j2].recommendations = c.recommendations

\* an input cluster of two skills whose first scanned event is the later
\* one in time, so that the sorted member array starts with the other
\* skill, beside a cluster of another category
C18_Witness ==
    /\ Done
    /\ \E j \in ResultIndexes :
          /\ result[j].rootCause.category = catInput
          /\ FirstScannedSkill(result[j]) # result[j].failureLogs[1].skillName
          /\ result[j].recommendations[1]
               = recInput1a \o FirstScannedSkill(result[j]) \o recInput1b
    /\ \E j \in ResultIndexes : result[j].rootCause.category = catApi

(***************************************************************************)
(* Representative prompts.                                                 *)
(***************************************************************************)
PromptsOfFirstFive(members) ==
    {members[i].prompt : i \in 1..(IF Len(members) < 5 THEN Len(members) ELSE 5)}

\* C19: representativePrompts has at most five entries, no entry twice, and
\* holds exactly the prompts of the first five members of the group in the
\* order in which the input was scanned, not of the first five members of
\* the group sorted by timestamp.
C19_RepresentativePrompts ==
    Done =>
        \A j \in ResultIndexes :
            LET rp == result[j].representativePrompts
            IN /\ Len(rp) <= 5
               /\ \A a, b \in 1..Len(rp) : a # b => rp[a] # rp[b]
               /\ {rp[i] : i \in 1..Len(rp)}
                    = PromptsOfFirstFive(ScanMembers(ClusterKey(result[j])))

\* a cluster of more than five members whose first five in scan order and
\* first five in time order have different prompts
C19_Witness ==
    /\ Done
    /\ \E j \in ResultIndexes :
          /\ result[j].failureCount > 5
          /\ PromptsOfFirstFive(ScanMembers(ClusterKey(result[j])))
               # PromptsOfFirstFive(result[j].failureLogs)
          /\ Len(result[j].representativePrompts) = 1

(***************************************************************************)
(* get_recommendations for a cluster that is not there.                    *)
(***************************************************************************)
SnapshotIds(snapshot) == {snapshot.clusters[j].id : j \in 1..Len(snapshot.clusters)}

NotFoundMessage(clusterId) == msgCluster \o clusterId \o msgNotFound

\* the server has just answered a get_recommendations request that names a
\* cluster the snapshot does not hold
MissingClusterAsked(req, snapshot) ==
    /\ req.name = toolGetRecommendations
    /\ Truthy(req.args.clusterId)
    /\ req.args.clusterId.value \notin SnapshotIds(snapshot)

\* the connected client was asked for a cluster its generated data lacks
MissingClusterCalled(call) ==
    /\ call.method = "getRecommendations"
    /\ call.connected
    /\ Truthy(call.clusterId)
    /\ \A j \in 1..Len(call.clusters) : call.clusters[j] # call.clusterId.value

\* C20: a get_recommendations request for a clusterId that the snapshot does
\* not hold gets a tool result with isError = true whose text names the
\* cluster, and the client's call rejects with "Cluster <id> not found"; the
\* request leaves the stored snapshot as it was, and whatever was answered
\* before, a request for a cluster that is there or for the global list is
\* answered without isError.
C20_MissingCluster ==
    [][/\ MissingClusterAsked(request', mockData')
          => /\ toolResult'.isError
             /\ toolResult'.text
                  = msgErrorPrefix \o NotFoundMessage(request'.args.clusterId.value)
       /\ request'.name = toolGetRecommendations => mockData' = mockData
       /\ (/\ request'.name = toolGetRecommendations
           /\ ~MissingClusterAsked(request', mockData'))
          => /\ ~toolResult'.isError
             /\ Truthy(request'.args.clusterId)
                  => toolResult'.payload.clusterId = request'.args.clusterId.value
       /\ MissingClusterCalled(clientCall')
          => /\ clientCall'.status = "rejected"
             /\ clientCall'.value = NotFoundMessage(clientCall'.clusterId.value)
      ]_vars

\* the server holds a snapshot with one cluster and has answered a request
\* for the other key's cluster with the error; the client, connected, has
\* rejected a call for a cluster its data lacks
C20_Witness ==
    /\ Len(mockData.clusters) = 1
    /\ MissingClusterAsked(request, mockData)
    /\ request.args.clusterId.value # idMissing
    /\ toolResult.isError
    /\ MissingClusterCalled(clientCall)
    /\ Len(clientCall.clusters) >= 1
    /\ clientCall.status = "rejected"


(***************************************************************************)
(* The tool calls of the server.                                           *)
(***************************************************************************)
\* cluster c passes every filter that the arguments args supply
MatchesFilters(c, args) ==
    /\ args.severity.defined => c.severity = args.severity.value
    /\ args.resolved.defined => c.resolved = args.resolved.value
    /\ args.minClusterSize.defined => c.failureCount >= args.minClusterSize.value

NoFilters(args) ==
    ~args.severity.defined /\ ~args.resolved.defined /\ ~args.minClusterSize.defined

\* C21: the result of get_clusters is the subsequence of the snapshot's
\* clusters (the engine's output) made of the clusters that pass every
\* supplied filter (severity equal, resolved equal, failureCount at least
\* the minimum), in the engine's order of descending failureCount, and it is
\* the engine's output itself when no filter is supplied.
C21_PostHocFilter ==
    request.name = toolGetClusters =>
        LET data == toolResult.payload.data
        IN /\ ~toolResult.isError
           /\ data = SelectSeq(mockData.clusters,
                               LAMBDA c : MatchesFilters(c, request.args))
           /\ toolResult.payload.count = Len(data)
           /\ \A j \in 1..(Len(data) - 1) :
                 data[j].failureCount >= data[j + 1].failureCount
           /\ NoFilters(request.args) => data = mockData.clusters

\* a call with a severity and a minimum that keeps one of two clusters, the
\* kept one having exactly the minimum as its failureCount
C21_Witness ==
    /\ request.name = toolGetClusters
    /\ request.args.severity.defined
    /\ request.args.minClusterSize.defined
    /\ Len(mockData.clusters) = 2
    /\ Len(toolResult.payload.data) = 1
    /\ toolResult.payload.data[1].failureCount = request.args.minClusterSize.value


(***************************************************************************)
(* The order of a cluster's members.                                       *)
(***************************************************************************)
\* C22: the failureLogs of every returned cluster lists the cluster's
\* member events in the order in which the input was scanned, whatever the
\* order of the timestamps in the input.
C22_FailureLogsInScanOrder ==
    Done =>
        \A j \in ResultIndexes :
            result[j].failureLogs = ScanMembers(ClusterKey(result[j]))


(***************************************************************************)
(* The snapshot of the server.                                             *)
(***************************************************************************)
\* C23: every cluster that the engine returned into a snapshot has
\* resolved = false, so the resolvedClusters of every snapshot built from
\* the engine's output is 0.
C23_NothingResolved ==
    /\ \A j \in 1..Len(mockData.clusters) : mockData.clusters[j].resolved = FALSE
    /\ mockData.resolvedClusters = 0

\* a snapshot with two clusters, rebuilt by a refreshing call and returned
\* with resolvedClusters = 0
C23_Witness ==
    /\ request.name = toolGetFailureAnalytics
    /\ request.args.refresh = Given(TRUE)
    /\ Len(mockData.clusters) = 2
    /\ toolResult.payload.resolvedClusters = 0


\* a get_clusters request whose only argument is a minClusterSize of 1 or more
OnlyMinClusterSize(req) ==
    /\ req.name = toolGetClusters
    /\ ~req.args.severity.defined
    /\ ~req.args.resolved.defined
    /\ req.args.minClusterSize.defined
    /\ req.args.minClusterSize.value >= 1

\* C24 as stated: get_clusters with minClusterSize = m >= 1 and no other
\* filter returns what the engine returns for the snapshot's events under
\* the threshold m: one cluster for every group of at least m members,
\* m = 1 and m = 2 included.
C24_MinClusterSizeIsThreshold ==
    OnlyMinClusterSize(request) =>
        toolResult.payload.data =
            ProcessFailureClusters(mockData.failureLogs,
                                   request.args.minClusterSize.value)

\* C24 amended: get_clusters with minClusterSize = m >= 1 and no other
\* filter returns what the engine returns for the snapshot's events under
\* the threshold max(m, 3): the snapshot was clustered with the default
\* threshold 3, so groups of one or two members are in no result.
C24_MinClusterSizeAboveDefault ==
    OnlyMinClusterSize(request) =>
        LET m == request.args.minClusterSize.value
        IN toolResult.payload.data =
              ProcessFailureClusters(mockData.failureLogs,
                  IF m > DefaultMinClusterSize THEN m ELSE DefaultMinClusterSize)

\* a call with a minimum below 3 on a snapshot whose events hold a group
\* smaller than 3 beside a cluster
C24_Witness ==
    /\ OnlyMinClusterSize(request)
    /\ request.args.minClusterSize.value < DefaultMinClusterSize
    /\ Len(toolResult.payload.data) = 1
    /\ \E i \in 1..Len(mockData.failureLogs) :
          LET size == Len(SelectSeq(mockData.failureLogs,
                        LAMBDA l : GroupKey(l) = GroupKey(mockData.failureLogs[i])))
          IN /\ size < DefaultMinClusterSize
             /\ size >= request.args.minClusterSize.value


\* s is an initial segment of t
IsPrefix(s, t) ==
    /\ Len(s) <= Len(t)
    /\ \A i \in 1..Len(s) : s[i] = t[i]

\* C25: get_failure_logs returns at most limit logs for every limit of 0 or
\* more, at most 100 logs when limit is left out, and what it returns is a
\* prefix of the snapshot's logs after the skillName filter.
C25_AtMostLimit ==
    request.name = toolGetFailureLogs =>
        LET data == toolResult.payload.data
            skillName == request.args.skillName
            limit == request.args.limit
            filtered ==
                IF skillName.defined /\ skillName.value # <<>>
                THEN SelectSeq(mockData.failureLogs,
                               LAMBDA l : l.skillName = skillName.value)
                ELSE mockData.failureLogs
        IN /\ IsPrefix(data, filtered)
           /\ limit.defined => Len(data) <= limit.value
           /\ ~limit.defined => Len(data) <= DefaultLimit


\* the counters of snapshot s agree with what s stores
CountersAgree(s) ==
    /\ s.totalFailures = Len(s.failureLogs)
    /\ s.criticalClusters =
          Cardinality({j \in 1..Len(s.clusters) : s.clusters[j].severity = "critical"})

\* C26: the snapshot is replaced only by a get_failure_analytics call with
\* refresh = true; every other call, an unknown tool and a call that ends in
\* an error included, leaves it as it was; and in every state its
\* totalFailures is the number of its logs and its criticalClusters the
\* number of its clusters of severity critical.
C26_SnapshotFrame ==
    [][/\ mockData' # mockData =>
             /\ request'.name = toolGetFailureAnalytics
             /\ request'.args.refresh = Given(TRUE)
       /\ CountersAgree(mockData)
       /\ CountersAgree(mockData')]_vars

\* a refreshing call that stored a snapshot of more than 100 logs with two
\* critical clusters
C26_Witness ==
    /\ request.name = toolGetFailureAnalytics
    /\ request.args.refresh = Given(TRUE)
    /\ toolResult.payload = mockData
    /\ mockData.totalFailures > DefaultLimit
    /\ mockData.criticalClusters = 2


(***************************************************************************)
(* Trend and member count.                                                 *)
(***************************************************************************)
\* C27: the trend of a cluster depends on its member count n alone, not on
\* the timestamps: it is increasing exactly when n is odd and at most 9,
\* stable for every other n >= 1, and never decreasing.
C27_TrendByCount ==
    Done =>
        \A j \in ResultIndexes :
            LET n == result[j].failureCount
                rising == n % 2 = 1 /\ n <= 9
            IN /\ n >= 1
               /\ result[j].trend = "increasing" <=> rising
               /\ result[j].trend = "stable" <=> ~rising
               /\ result[j].trend # "decreasing"

\* eleven events scanned from the latest to the earliest form a stable
\* cluster
C27_Witness ==
    /\ Done
    /\ Len(logs) = 11
    /\ logs[1].timestamp > logs[2].timestamp
    /\ \E j \in ResultIndexes :
          result[j].failureCount = 11 /\ result[j].trend = "stable"


(***************************************************************************)
(* Skills and identifiers of the clusters.                                 *)
(***************************************************************************)
\* C28: all members of a cluster have the same skillName, so affectedSkills
\* has exactly one element, which is the skill of every member, for
\* arbitrary skill names and exceptions, those with an underscore included.
C28_OneSkillPerCluster ==
    Done =>
        \A j \in ResultIndexes :
            /\ Len(result[j].affectedSkills) = 1
            /\ \A m \in Members(result[j]) :
                  m.skillName = result[j].affectedSkills[1]


\* C29: within the output of one call the cluster ids are pairwise
\* distinct, every id is "cluster_" followed by the grouping key of each of
\* the cluster's members, and a lookup by id finds the one cluster that has
\* the id.
C29_DistinctIds ==
    Done =>
        /\ \A j, k \in ResultIndexes : result[j].id = result[k].id => j = k
        /\ \A j \in ResultIndexes :
              /\ \A m \in Members(result[j]) :
                    result[j].id = idPrefix \o GroupKey(m)
              /\ FindCluster(result, result[j].id) = Given(result[j])

\* two clusters, one of them with two members
C29_Witness ==
    /\ Done
    /\ Len(result) = 2
    /\ result[1].failureCount = 2
    /\ result[1].id # result[2].id


(***************************************************************************)
(* The connection of the client.                                           *)
(***************************************************************************)
DataMethods ==
    {"getFailureAnalytics", "getClusters", "getFailureLogs", "analyzeTrends",
     "getRecommendations"}

\* the call recorded in call failed with 'MCP Client not connected'
NotConnectedError(call) ==
    /\ call.method \in DataMethods
    /\ call.status = "rejected"
    /\ call.value = msgNotConnected

\* C30: the client starts disconnected; isConnected is true exactly when
\* connectionStatus is 'connected'; once connected it never becomes
\* disconnected again; a data method invoked while the client is
\* disconnected fails with 'MCP Client not connected' and yields no data,
\* and one invoked while it is connected never fails with that error.  A
\* step of a connected client is a call of a data method, and the call a
\* disconnected client has recorded was made while it was disconnected.
C30_ConnectionGate ==
    /\ ~isConnected /\ connectionStatus = "disconnected"
    /\ [](/\ isConnected <=> connectionStatus = "connected"
          /\ connectionStatus \in {"disconnected", "connected"})
    /\ [][isConnected => isConnected']_vars
    /\ [][/\ ~isConnected =>
                (clientCall'.method \in DataMethods
                    => NotConnectedError(clientCall'))
          /\ isConnected =>
                /\ clientCall'.method \in DataMethods
                /\ ~NotConnectedError(clientCall')]_vars

\* a connected client whose last call, made before the connection, was a
\* getFailureLogs that failed with 'MCP Client not connected'
C30_Witness ==
    /\ isConnected
    /\ connectionStatus = "connected"
    /\ clientCall.method = "getFailureLogs"
    /\ NotConnectedError(clientCall)
=============================================================================
